---- MODULE Spec2Model ----
(***************************************************************************)
(* topscript: a tree-walking evaluator for a subset of JavaScript.         *)
(*                                                                         *)
(* The recursive visitor of src/index.ts is modelled as an abstract        *)
(* machine.  `control` is the JavaScript call stack of visit functions:    *)
(* one frame per active visit*, holding the node being visited, the scope  *)
(* it was given, its position (pc) and its local values.  `mode` says how  *)
(* control reached the top frame: "eval" (it was just called), "ret" (the  *)
(* callee it was waiting for returned `ret`), "throw" (the callee threw    *)
(* `exc`).  Scopes, object literals, arrays, the context and               *)
(* Object.prototype are all JavaScript objects and live in `objects`, each *)
(* with a prototype link and own properties carrying the writable and      *)
(* configurable attributes the code relies on.                             *)
(***************************************************************************)
EXTENDS Integers, Sequences, FiniteSets, TLC

VARIABLES script, options, control, mode, ret, exc, objects, closures,
          stackSize, now, aborted, hostCalls

vars == <<script, options, control, mode, ret, exc, objects, closures,
          stackSize, now, aborted, hostCalls>>

(***************************************************************************)
(* Bounds of the model.                                                    *)
(***************************************************************************)
\* largest maxStackSize option tried
MaxStackOption == 3
\* largest clock reading (milliseconds since startTime)
MaxClock == 2
\* how many times the host calls a function value it got back
MaxHostCalls == 2
\* longest chain of directly nested calls in the generated scripts
MaxDepth == 4
\* longest sequence of counter calls in the generated scripts
MaxCalls == 4

\* an option the host did not pass (undefined)
None == 0 - 1

(***************************************************************************)
(* Values.  One record shape for every value, so that any two values can   *)
(* be compared: t is the type tag, n the number / boolean / object id /    *)
(* closure id, s the string.                                               *)
(***************************************************************************)
Undefined == [t |-> "undefined", n |-> 0, s |-> ""]
Null == [t |-> "null", n |-> 0, s |-> ""]
Bool(b) == [t |-> "boolean", n |-> IF b THEN 1 ELSE 0, s |-> ""]
Num(n) == [t |-> "number", n |-> n, s |-> ""]
Str(s) == [t |-> "string", n |-> 0, s |-> s]
Obj(id) == [t |-> "object", n |-> id, s |-> ""]
Fn(id) == [t |-> "function", n |-> id, s |-> ""]
Native(name) == [t |-> "function", n |-> 0, s |-> name]

\* JavaScript ToBoolean, as used by `if (...)`, `while (...)`, `?:`
Truthy(v) ==
  CASE v.t = "undefined" -> FALSE
    [] v.t = "null" -> FALSE
    [] v.t = "boolean" -> v.n = 1
    [] v.t = "number" -> v.n # 0
    [] v.t = "string" -> v.s # ""
    [] OTHER -> TRUE

IsNullish(v) == v.t \in {"undefined", "null"}

\* typeof fn === 'function'
IsFunction(v) == v.t = "function"

\* SameValue of the language standard, which Object.defineProperty uses to
\* decide whether a write to a read-only property changes it
SameValue(a, b) == a = b

(***************************************************************************)
(* Exceptions.                                                             *)
(***************************************************************************)
NoError == [type |-> "none", msg |-> "", name |-> "", value |-> Undefined]
Error(msg, name) == [type |-> "Error", msg |-> msg, name |-> name, value |-> Undefined]
TypeError(msg, name) == [type |-> "TypeError", msg |-> msg, name |-> name, value |-> Undefined]
ReturnException(v) == [type |-> "ReturnException", msg |-> "", name |-> "", value |-> v]
SafeNavigationError == [type |-> "SafeNavigationError", msg |-> "", name |-> "", value |-> Undefined]

(***************************************************************************)
(* The syntax tree, as the parser hands it over (ESTree node shapes).      *)
(***************************************************************************)
NoNode == [type |-> "null"]
Literal(v) == [type |-> "Literal", value |-> v]
Identifier(name) == [type |-> "Identifier", name |-> name]
ExpressionStatement(e) == [type |-> "ExpressionStatement", expression |-> e]
VariableDeclaration(kind, name, init) ==
  [type |-> "VariableDeclaration", kind |-> kind,
   declarations |-> <<[id |-> Identifier(name), init |-> init]>>]
AssignmentExpression(op, left, right) ==
  [type |-> "AssignmentExpression", operator |-> op, left |-> left, right |-> right]
UpdateExpression(op, prefix, argument) ==
  [type |-> "UpdateExpression", operator |-> op, prefix |-> prefix, argument |-> argument]
BinaryExpression(op, left, right) ==
  [type |-> "BinaryExpression", operator |-> op, left |-> left, right |-> right]
BlockStatement(body) == [type |-> "BlockStatement", body |-> body]
IfStatement(test, consequent, alternate) ==
  [type |-> "IfStatement", test |-> test, consequent |-> consequent, alternate |-> alternate]
WhileStatement(test, body) == [type |-> "WhileStatement", test |-> test, body |-> body]
ReturnStatement(argument) == [type |-> "ReturnStatement", argument |-> argument]
FunctionDeclaration(name, params, body) ==
  [type |-> "FunctionDeclaration", id |-> Identifier(name), params |-> params,
   body |-> body, async |-> FALSE]
FunctionExpression(params, body) ==
  [type |-> "FunctionExpression", id |-> NoNode, params |-> params, body |-> body,
   async |-> FALSE]
ArrowFunctionExpression(params, body) ==
  [type |-> "ArrowFunctionExpression", id |-> NoNode, params |-> params, body |-> body,
   async |-> FALSE]
CallExpression(callee, arguments) ==
  [type |-> "CallExpression", callee |-> callee, arguments |-> arguments, optional |-> FALSE]
MemberExpression(object, property, computed, optional) ==
  [type |-> "MemberExpression", object |-> object, property |-> property,
   computed |-> computed, optional |-> optional]
ChainExpression(e) == [type |-> "ChainExpression", expression |-> e]
Property(key, value) == [type |-> "Property", key |-> Identifier(key), value |-> value, computed |-> FALSE]
ObjectExpression(properties) == [type |-> "ObjectExpression", properties |-> properties]
UnaryExpression(op, argument) ==
  [type |-> "UnaryExpression", operator |-> op, prefix |-> TRUE, argument |-> argument]
ArrayExpression(elements) == [type |-> "ArrayExpression", elements |-> elements]
Program(body) == [type |-> "Program", body |-> body]

\* shorthands used to write the scripts below
Id(name) == Identifier(name)
Lit(n) == Literal(Num(n))
Stmt(e) == ExpressionStatement(e)
Let(name, init) == VariableDeclaration("let", name, init)
Const(name, init) == VariableDeclaration("const", name, init)
Assign(name, op, e) == Stmt(AssignmentExpression(op, Id(name), e))
Call(name, args) == CallExpression(Id(name), args)
Ret(e) == ReturnStatement(e)

(***************************************************************************)
(* JavaScript objects.  An object is [proto, own]: proto is the id of its  *)
(* prototype (0 for null) and own maps each own key to a property          *)
(* [value, writable, configurable].  Scopes are objects made by            *)
(* createScope; a scope's parent is its prototype.                         *)
(***************************************************************************)
NoProps == [k \in {} |-> Undefined]

Prop(v, w, c) == [value |-> v, writable |-> w, configurable |-> c]

\* a property made by plain assignment or by an object literal
PlainProp(v) == Prop(v, TRUE, TRUE)

WithProp(own, key, p) ==
  [k \in DOMAIN own \cup {key} |-> IF k = key THEN p ELSE own[k]]

\* Object.prototype: the end of every prototype chain
ObjectPrototypeId == 1
\* the context object the host passed
ContextId == 2
\* the scope topscript creates over the context
TopScopeId == 3

ObjectPrototype ==
  [proto |-> 0,
   own |-> [k \in {"toString"} |-> PlainProp(Native("toString"))]]

\* a scope argument that is null or undefined
NoScope == 0

\* obj.hasOwnProperty(key)
HasOwnProperty(objs, o, key) == key \in DOMAIN objs[o].own

\* Object.getPrototypeOf(obj)
GetPrototypeOf(objs, o) == objs[o].proto

RECURSIVE hasProperty(_, _, _)
hasProperty(objs, o, key) ==
  IF HasOwnProperty(objs, o, key) THEN TRUE
  ELSE IF GetPrototypeOf(objs, o) = 0 THEN FALSE
  ELSE hasProperty(objs, GetPrototypeOf(objs, o), key)

\* the `in` operator: own or inherited
RECURSIVE In(_, _, _)
In(objs, o, key) ==
  \/ HasOwnProperty(objs, o, key)
  \/ /\ GetPrototypeOf(objs, o) # 0
     /\ In(objs, GetPrototypeOf(objs, o), key)

\* obj[key]: the nearest object on the prototype chain owning key decides
RECURSIVE Get(_, _, _)
Get(objs, o, key) ==
  IF HasOwnProperty(objs, o, key) THEN objs[o].own[key].value
  ELSE IF GetPrototypeOf(objs, o) = 0 THEN Undefined
  ELSE Get(objs, GetPrototypeOf(objs, o), key)

\* a property descriptor { value } or { value, writable }
Desc(v) == [value |-> v, hasWritable |-> FALSE, writable |-> FALSE]
DescW(v, w) == [value |-> v, hasWritable |-> TRUE, writable |-> w]

\* Object.defineProperty(obj, key, desc).  Yields [ok, objects]; ok = FALSE is
\* the TypeError "Cannot redefine property: key".
DefineProperty(objs, o, key, desc) ==
  IF ~HasOwnProperty(objs, o, key)
  THEN [ok |-> TRUE,
        objects |-> [objs EXCEPT ![o].own =
                       WithProp(@, key, Prop(desc.value, desc.hasWritable /\ desc.writable, FALSE))]]
  ELSE LET cur == objs[o].own[key] IN
       IF cur.configurable \/ cur.writable
       THEN [ok |-> TRUE,
             objects |-> [objs EXCEPT ![o].own[key] =
                            Prop(desc.value,
                                 IF desc.hasWritable THEN desc.writable ELSE cur.writable,
                                 cur.configurable)]]
       ELSE IF (desc.hasWritable /\ desc.writable) \/ ~SameValue(desc.value, cur.value)
       THEN [ok |-> FALSE, objects |-> objs]
       ELSE [ok |-> TRUE, objects |-> objs]

\* obj[key] = v in strict code.  Yields [ok, objects]; ok = FALSE is the
\* TypeError for a read-only property found on the chain.
RECURSIVE Writable(_, _, _)
Writable(objs, o, key) ==
  IF HasOwnProperty(objs, o, key) THEN objs[o].own[key].writable
  ELSE IF GetPrototypeOf(objs, o) = 0 THEN TRUE
  ELSE Writable(objs, GetPrototypeOf(objs, o), key)

Set(objs, o, key, v) ==
  IF ~Writable(objs, o, key) THEN [ok |-> FALSE, objects |-> objs]
  ELSE IF HasOwnProperty(objs, o, key)
  THEN [ok |-> TRUE, objects |-> [objs EXCEPT ![o].own[key].value = v]]
  ELSE [ok |-> TRUE, objects |-> [objs EXCEPT ![o].own = WithProp(@, key, PlainProp(v))]]

\* createScope(parent): a new empty object whose prototype is parent
createScope(objs, parent) == Append(objs, [proto |-> parent, own |-> NoProps])

\* redefineProperty without the walk up the prototype chain
redefinePropertyOwn(objs, o, key, desc) == DefineProperty(objs, o, key, desc)

\* redefineProperty(obj, key, properties): defines on the nearest object of the
\* chain that owns key, or on the end of the chain
RECURSIVE redefineProperty(_, _, _, _)
redefineProperty(objs, o, key, desc) ==
  IF HasOwnProperty(objs, o, key) \/ GetPrototypeOf(objs, o) = 0
  THEN DefineProperty(objs, o, key, desc)
  ELSE redefineProperty(objs, GetPrototypeOf(objs, o), key, desc)

(***************************************************************************)
(* Operators of the language, on the values the scripts below use.        *)
(***************************************************************************)
\* visitBinaryExpression's switch, for numbers and strings
BinaryOp(op, a, b) ==
  CASE op = "+" /\ a.t = "number" /\ b.t = "number" -> Num(a.n + b.n)
    [] op = "+" /\ a.t = "string" /\ b.t = "string" -> Str(a.s \o b.s)
    [] op = "-" /\ a.t = "number" /\ b.t = "number" -> Num(a.n - b.n)
    [] op = "*" /\ a.t = "number" /\ b.t = "number" -> Num(a.n * b.n)
    [] op = "<" /\ a.t = "number" /\ b.t = "number" -> Bool(a.n < b.n)
    [] op = "<=" /\ a.t = "number" /\ b.t = "number" -> Bool(a.n <= b.n)
    [] op = ">" /\ a.t = "number" /\ b.t = "number" -> Bool(a.n > b.n)
    [] op = ">=" /\ a.t = "number" /\ b.t = "number" -> Bool(a.n >= b.n)
    [] op = "===" -> Bool(a = b)
    [] op = "!==" -> Bool(a # b)

\* the function visitAssignmentExpression passes to assignWithOperator
AssignOp(op, a, b) ==
  CASE op = "=" -> b
    [] op = "+=" -> BinaryOp("+", a, b)
    [] op = "-=" -> BinaryOp("-", a, b)
    [] op = "*=" -> BinaryOp("*", a, b)

AssignOperators == {"=", "+=", "-=", "*="}

(***************************************************************************)
(* The machine.                                                            *)
(***************************************************************************)
\* visitNode's switch: the visit function each node type is handed to
Dispatch(type) ==
  CASE type = "ExpressionStatement" -> "visitExpressionStatement"
    [] type = "BinaryExpression" -> "visitBinaryExpression"
    [] type = "Literal" -> "visitLiteral"
    [] type = "Identifier" -> "visitIdentifier"
    [] type = "VariableDeclaration" -> "visitVariableDeclaration"
    [] type = "FunctionExpression" -> "visitFunctionExpression"
    [] type = "FunctionDeclaration" -> "visitFunctionDeclaration"
    [] type = "ArrowFunctionExpression" -> "visitArrowFunctionExpression"
    [] type = "EmptyStatement" -> "emptyStatement"
    [] type = "ReturnStatement" -> "visitReturnStatement"
    [] type = "CallExpression" -> "visitCallExpression"
    [] type = "AssignmentExpression" -> "visitAssignmentExpression"
    [] type = "ArrayExpression" -> "visitArrayExpression"
    [] type = "ObjectExpression" -> "visitObjectExpression"
    [] type = "IfStatement" -> "visitIfStatement"
    [] type = "BlockStatement" -> "visitBlockStatement"
    [] type = "MemberExpression" -> "visitMemberExpression"
    [] type = "WhileStatement" -> "visitWhileStatement"
    [] type = "ChainExpression" -> "visitChainExpression"
    [] type = "UnaryExpression" -> "visitUnaryExpression"
    [] OTHER -> "default"

\* one activation of a visit function
Frame(fn, node, scope, params, vals) ==
  [fn |-> fn, node |-> node, scope |-> scope, pc |-> 0, params |-> params, vals |-> vals]

Top == control[Len(control)]
Pop == SubSeq(control, 1, Len(control) - 1)
SetTop(f) == [control EXCEPT ![Len(control)] = f]
Running == mode \in {"eval", "ret", "throw"}
At(fn, m) == Running /\ mode = m /\ Top.fn = fn

\* the top activation returns v to its caller
Returns(v) ==
  /\ control' = Pop
  /\ mode' = "ret"
  /\ ret' = v
  /\ exc' = NoError

\* the top activation throws e to its caller
Throws(e) ==
  /\ control' = Pop
  /\ mode' = "throw"
  /\ ret' = Undefined
  /\ exc' = e

\* the top activation, now f, calls visitNode({ node, scope })
Visits(f, node, scope) ==
  /\ control' = Append(SetTop(f), Frame(Dispatch(node.type), node, scope, <<>>, <<>>))
  /\ mode' = "eval"
  /\ ret' = Undefined
  /\ exc' = NoError

\* the top activation, now f, calls the function visitBlockStatement or
\* visitArrowFunctionBody returned, with args as runtimeParams
Invokes(f, fn, node, scope, params, args) ==
  /\ control' = Append(SetTop(f), Frame(fn, node, scope, params, args))
  /\ mode' = "eval"
  /\ ret' = Undefined
  /\ exc' = NoError

Quiet == UNCHANGED <<script, options, objects, closures, stackSize, now, aborted, hostCalls>>
QuietButObjects == UNCHANGED <<script, options, closures, stackSize, now, aborted, hostCalls>>

timeout == options.timeout
disableWhileStatements == options.disableWhileStatements
maxStackSize == options.maxStackSize
allowReturnOutsideFunction == options.allowReturnOutsideFunction

(***************************************************************************)
(* Storage reclaimed by the JavaScript runtime: an object nothing refers   *)
(* to any more is gone.  Only trailing objects are dropped, so ids of live *)
(* objects never change.                                                   *)
(***************************************************************************)
ObjectRefs(objs, o) ==
  {objs[o].proto} \cup
  {objs[o].own[k].value.n : k \in {j \in DOMAIN objs[o].own : objs[o].own[j].value.t = "object"}}

RECURSIVE ReachableFrom(_, _)
ReachableFrom(objs, set) ==
  LET next == (set \cup UNION {ObjectRefs(objs, o) : o \in set}) \ {0}
  IN IF next = set THEN set ELSE ReachableFrom(objs, next)

ValueRefs(vs) == {v.n : v \in {w \in vs : w.t = "object"}}

Roots(ctl, cls, live) ==
  {ObjectPrototypeId, ContextId, TopScopeId}
  \cup {ctl[i].scope : i \in 1..Len(ctl)}
  \cup UNION {ValueRefs({ctl[i].vals[j] : j \in 1..Len(ctl[i].vals)}) : i \in 1..Len(ctl)}
  \cup {cls[i].scope : i \in 1..Len(cls)}
  \cup ValueRefs(live)

RECURSIVE Trim(_, _)
Trim(objs, reach) ==
  IF Len(objs) > 0 /\ Len(objs) \notin reach
  THEN Trim(SubSeq(objs, 1, Len(objs) - 1), reach)
  ELSE objs

Reclaim(objs, ctl, cls, live) == Trim(objs, ReachableFrom(objs, Roots(ctl, cls, live)))

(***************************************************************************)
(* Arrays: objects with index keys and a length.                           *)
(***************************************************************************)
IndexKeys == <<"0", "1", "2", "3", "4", "5">>
IndexKey(i) == IndexKeys[i + 1]

ArrayObject(vals) ==
  [proto |-> ObjectPrototypeId,
   own |-> [k \in {IndexKey(i - 1) : i \in 1..Len(vals)} \cup {"length"} |->
              IF k = "length" THEN Prop(Num(Len(vals)), TRUE, FALSE)
              ELSE PlainProp(vals[CHOOSE i \in 1..Len(vals) : IndexKey(i - 1) = k])]]

\* the property key a value names (ToPropertyKey), for strings and indices
ToPropertyKey(v) ==
  CASE v.t = "string" -> v.s
    [] v.t = "number" -> IndexKey(v.n)
    [] v.t = "undefined" -> "undefined"
    [] v.t = "null" -> "null"

\* object[key] on a value: [err, value].  Reading a property of null or
\* undefined is the runtime's TypeError; functions and primitives have no own
\* properties here and inherit Object.prototype's.
MemberGet(objs, object, key) ==
  CASE IsNullish(object) ->
         [err |-> TypeError("Cannot read properties of " \o object.t, key), value |-> Undefined]
    [] object.t = "object" -> [err |-> NoError, value |-> Get(objs, object.n, key)]
    [] OTHER -> [err |-> NoError, value |-> Get(objs, ObjectPrototypeId, key)]

\* object[key] = v on a value: [err, objects].  A store past the end of an
\* array moves its length; a store to null, undefined or a primitive is the
\* runtime's TypeError.
MemberSet(objs, object, key, v) ==
  CASE IsNullish(object) ->
         [err |-> TypeError("Cannot set properties of " \o object.t, key), objects |-> objs]
    [] object.t = "object" ->
         LET r == Set(objs, object.n, key, v)
             own == r.objects[object.n].own
             grows == /\ "length" \in DOMAIN own
                      /\ \E i \in 1..Len(IndexKeys) : IndexKeys[i] = key /\ own["length"].value.n < i
         IN IF ~r.ok
            THEN [err |-> TypeError("Cannot assign to read only property", key), objects |-> objs]
            ELSE IF grows
            THEN [err |-> NoError,
                  objects |-> [r.objects EXCEPT ![object.n].own["length"].value =
                                 Num(CHOOSE i \in 1..Len(IndexKeys) : IndexKeys[i] = key)]]
            ELSE [err |-> NoError, objects |-> r.objects]
    [] OTHER -> [err |-> TypeError("Cannot create property", key), objects |-> objs]

\* delete object[key] in strict code: [err, objects]
MemberDelete(objs, object, key) ==
  CASE IsNullish(object) ->
         [err |-> TypeError("Cannot convert undefined or null to object", key), objects |-> objs]
    [] object.t = "object" /\ ~HasOwnProperty(objs, object.n, key) ->
         [err |-> NoError, objects |-> objs]
    [] object.t = "object" /\ HasOwnProperty(objs, object.n, key) ->
         IF ~objs[object.n].own[key].configurable
         THEN [err |-> TypeError("Cannot delete property", key), objects |-> objs]
         ELSE [err |-> NoError,
               objects |-> [objs EXCEPT ![object.n].own =
                              [k \in DOMAIN @ \ {key} |-> @[k]]]]
    [] OTHER -> [err |-> NoError, objects |-> objs]

(***************************************************************************)
(* Resource guards.                                                        *)
(***************************************************************************)
\* withStackCheck comparing with >= instead of >
StackExceededAtLimit(size) == maxStackSize # None /\ size >= maxStackSize

\* withStackCheck letting one activation more in
StackExceededLate(size) == maxStackSize # None /\ size > maxStackSize + 1

\* withStackCheck's test, on the incremented counter
StackExceeded(size) == maxStackSize # None /\ size > maxStackSize

\* `Maximum stack size exceeded: ${maxStackSize}`
StackSizeError == Error("Maximum stack size exceeded: ", IndexKey(maxStackSize))

\* checkTimeout measuring from the moment of the check instead of startTime
TimedOutFromNow(elapsed) == timeout # None /\ timeout # 0 /\ elapsed - now > timeout

\* checkTimeout's test: `timeout && Date.now() - startTime > timeout`
TimedOut(elapsed) == timeout # None /\ timeout # 0 /\ elapsed > timeout

\* the abort flag of the guard check
AbortRequested == options.abortFlag /\ aborted

\* the error a guard check (function entry, loop iteration) raises, if any
GuardError(elapsed) ==
  IF TimedOut(elapsed) THEN Error("Execution timed out", "")
  ELSE IF AbortRequested THEN Error("Execution aborted", "")
  ELSE NoError

\* a catch that takes every error for a ReturnException
IsReturnExceptionAny(e) == e.type # "none"

\* `error instanceof ReturnException` in visitBlockStatement and topscript
IsReturnException(e) == e.type = "ReturnException"

\* visitChainExpression testing for the wrong carrier class
IsSafeNavigationErrorWrongClass(e) == e.type = "ReturnException"

\* `error instanceof SafeNavigationError` in visitChainExpression and visitDelete
IsSafeNavigationError(e) == e.type = "SafeNavigationError"

(***************************************************************************)
(* Parameter binding.                                                      *)
(***************************************************************************)
ValueAt(values, index) == IF index + 1 <= Len(values) THEN values[index + 1] ELSE Undefined

Slice(values, index) ==
  IF index + 1 <= Len(values) THEN SubSeq(values, index + 1, Len(values)) ELSE <<>>

\* visitParamNode defining plain parameters as writable properties
visitParamNodeWritable(objs, node, scope, values, index) ==
  LET name == IF node.type = "Identifier" THEN node.name ELSE node.argument.name
  IN [err |-> NoError,
      objects |-> DefineProperty(objs, scope, name,
                                 DescW(ValueAt(values, index), TRUE)).objects]

\* visitParamNode({ node, scope, values, index }): yields [err, objects]
visitParamNode(objs, node, scope, values, index) ==
  CASE node.type = "Identifier" ->
         LET r == DefineProperty(objs, scope, node.name, Desc(ValueAt(values, index)))
         IN [err |-> IF r.ok THEN NoError ELSE TypeError("Cannot redefine property", node.name),
             objects |-> r.objects]
    [] node.type = "RestElement" ->
         IF node.argument.type # "Identifier"
         THEN [err |-> Error("Unknown argument type", node.argument.type), objects |-> objs]
         ELSE LET withArr == Append(objs, ArrayObject(Slice(values, index)))
                  r == DefineProperty(withArr, scope, node.argument.name, Desc(Obj(Len(withArr))))
              IN [err |-> IF r.ok THEN NoError
                          ELSE TypeError("Cannot redefine property", node.argument.name),
                  objects |-> r.objects]
    [] OTHER -> [err |-> Error("Unknown param type", node.type), objects |-> objs]

\* params.forEach((param, index) => visitParamNode(...)), from position i on
RECURSIVE BindParams(_, _, _, _, _)
BindParams(objs, params, scope, values, i) ==
  IF i > Len(params) THEN [err |-> NoError, objects |-> objs]
  ELSE LET r == visitParamNode(objs, params[i], scope, values, i - 1)
       IN IF r.err # NoError THEN r
          ELSE BindParams(r.objects, params, scope, values, i + 1)

(***************************************************************************)
(* The visit functions.  Each action is one visit function of the source:  *)
(* what it does when called ("eval"), when a visit it called returns       *)
(* ("ret"), and when one throws ("throw", only where the source has a      *)
(* try).                                                                   *)
(***************************************************************************)
\* the parser's check of return statements: one outside every function
RECURSIVE ReturnOutsideFunction(_)
ReturnOutsideFunction(node) ==
  CASE node.type = "ReturnStatement" -> TRUE
    [] node.type \in {"Program", "BlockStatement"} ->
         \E i \in 1..Len(node.body) : ReturnOutsideFunction(node.body[i])
    [] node.type = "IfStatement" ->
         \/ ReturnOutsideFunction(node.consequent)
         \/ node.alternate # NoNode /\ ReturnOutsideFunction(node.alternate)
    [] node.type = "WhileStatement" -> ReturnOutsideFunction(node.body)
    [] OTHER -> FALSE

\* parse(script, { ecmaVersion, allowReturnOutsideFunction }): the error it
\* throws for the tree of a script, NoError when it accepts it; an option
\* left out counts as false
parse(tree, allow) ==
  IF ReturnOutsideFunction(tree) /\ ~allow
  THEN [Error("'return' outside of function", "") EXCEPT !.type = "SyntaxError"]
  ELSE NoError

\* topscript returns v to the host
Finish(v) ==
  /\ control' = <<>>
  /\ mode' = "done"
  /\ ret' = v
  /\ exc' = NoError

\* topscript throws e to the host
Fail(e) ==
  /\ control' = <<>>
  /\ mode' = "error"
  /\ ret' = Undefined
  /\ exc' = e

\* the body of topscript: tree.map(visitNode) inside its try
Topscript ==
  /\ Running /\ Top.fn = "topscript"
  /\ Quiet
  /\ LET f == Top
         body == f.node.body
     IN CASE mode = "eval" ->
               IF parse(f.node, allowReturnOutsideFunction) # NoError
               THEN Fail(parse(f.node, allowReturnOutsideFunction))
               ELSE IF body = <<>> THEN Finish(Undefined)
               ELSE Visits([f EXCEPT !.pc = 1], body[1], f.scope)
          [] mode = "ret" ->
               IF f.pc < Len(body)
               THEN Visits([f EXCEPT !.pc = f.pc + 1], body[f.pc + 1], f.scope)
               ELSE Finish(ret)
          [] mode = "throw" ->
               IF IsReturnException(exc) THEN Finish(exc.value) ELSE Fail(exc)

\* validate(script): parse with the ecmaVersion alone; the tree goes back to
\* the host
Validate ==
  /\ Running /\ Top.fn = "validate" /\ mode = "eval"
  /\ Quiet
  /\ IF parse(Top.node, FALSE) # NoError
     THEN Fail(parse(Top.node, FALSE))
     ELSE Finish([t |-> "tree", n |-> 0, s |-> Top.node.type])

VisitExpressionStatement ==
  /\ Running /\ Top.fn = "visitExpressionStatement" /\ mode \in {"eval", "ret"}
  /\ Quiet
  /\ CASE mode = "eval" -> Visits([Top EXCEPT !.pc = 1], Top.node.expression, Top.scope)
       [] mode = "ret" -> Returns(ret)

VisitLiteral ==
  /\ At("visitLiteral", "eval")
  /\ Quiet
  /\ Returns(Top.node.value)

\* visitIdentifier as visitNode calls it (optional and memberAccess absent)
VisitIdentifier ==
  /\ At("visitIdentifier", "eval")
  /\ Quiet
  /\ LET name == Top.node.name IN
     IF name = "undefined" THEN Returns(Undefined)
     ELSE IF Top.scope = NoScope THEN Throws(Error("Cannot read properties of null", name))
     ELSE IF ~hasProperty(objects, Top.scope, name) THEN Throws(Error("Unknown variable", name))
     ELSE Returns(Get(objects, Top.scope, name))

\* visitNode's `case 'EmptyStatement': return;`
VisitEmptyStatement ==
  /\ At("emptyStatement", "eval")
  /\ Quiet
  /\ Returns(Undefined)

\* visitNode's default case
VisitNodeDefault ==
  /\ At("default", "eval")
  /\ Quiet
  /\ Throws(Error("Unknown node type", Top.node.type))

\* a declaration that ignores node.kind
DeclareWritable(objs, scope, name, v, kind) ==
  DefineProperty(objs, scope, name, DescW(v, TRUE))

\* Object.defineProperty(scope, name, { value, writable: node.kind !== 'const' })
Declare(objs, scope, name, v, kind) ==
  DefineProperty(objs, scope, name, DescW(v, kind # "const"))

\* visitVariableDeclaration's loop from declarator i on, up to the first
\* initializer to evaluate, the first error, or the end
RECURSIVE Declarators(_, _, _)
Declarators(objs, f, i) ==
  IF i > Len(f.node.declarations) THEN [kind |-> "return", objects |-> objs, err |-> NoError, pc |-> i]
  ELSE LET d == f.node.declarations[i] IN
       IF d.id.type # "Identifier"
       THEN [kind |-> "throw", objects |-> objs,
             err |-> Error("Unknown variable declaration", d.id.type), pc |-> i]
       ELSE IF HasOwnProperty(objs, f.scope, d.id.name)
       THEN [kind |-> "throw", objects |-> objs,
             err |-> Error("is already declared", d.id.name), pc |-> i]
       ELSE IF d.init.type = "null"
       THEN \* declaration.init is null here, and null is the value defined
            Declarators(Declare(objs, f.scope, d.id.name, Null, f.node.kind).objects, f, i + 1)
       ELSE [kind |-> "visit", objects |-> objs, err |-> NoError, pc |-> i]

VisitVariableDeclaration ==
  /\ Running /\ Top.fn = "visitVariableDeclaration" /\ mode \in {"eval", "ret"}
  /\ QuietButObjects
  /\ LET f == Top
         r == IF mode = "eval" THEN Declarators(objects, f, 1)
              ELSE Declarators(Declare(objects, f.scope, f.node.declarations[f.pc].id.name,
                                       ret, f.node.kind).objects, f, f.pc + 1)
     IN /\ objects' = r.objects
        /\ CASE r.kind = "return" -> Returns(Undefined)
             [] r.kind = "throw" -> Throws(r.err)
             [] r.kind = "visit" ->
                  Visits([f EXCEPT !.pc = r.pc], f.node.declarations[r.pc].init, f.scope)

VisitBinaryExpression ==
  /\ Running /\ Top.fn = "visitBinaryExpression" /\ mode \in {"eval", "ret"}
  /\ Quiet
  /\ LET f == Top IN
     CASE mode = "eval" -> Visits([f EXCEPT !.pc = 1], f.node.left, f.scope)
       [] mode = "ret" /\ f.pc = 1 ->
            Visits([f EXCEPT !.pc = 2, !.vals = <<ret>>], f.node.right, f.scope)
       [] mode = "ret" /\ f.pc = 2 -> Returns(BinaryOp(f.node.operator, f.vals[1], ret))

\* visitAssignmentExpression.  A member on the left is stored by
\* property.name whenever the property node is an Identifier; any other
\* property node is evaluated twice, once for the store and once for the read.
VisitAssignmentExpression ==
  /\ Running /\ Top.fn = "visitAssignmentExpression" /\ mode \in {"eval", "ret"}
  /\ QuietButObjects
  /\ LET f == Top
         left == f.node.left
     IN CASE mode = "eval" /\ f.node.operator \notin AssignOperators ->
               Throws(Error("Unknown assignment operator", f.node.operator)) /\ UNCHANGED objects
          [] mode = "eval" /\ f.node.operator \in AssignOperators /\ left.type = "Identifier" ->
               /\ UNCHANGED objects
               /\ IF ~In(objects, f.scope, left.name)
                  THEN Throws(Error("is unknown", left.name))
                  ELSE \* scope[name] is read before the right-hand side is evaluated
                       Visits([f EXCEPT !.pc = 1, !.vals = <<Get(objects, f.scope, left.name)>>],
                              f.node.right, f.scope)
          [] mode = "eval" /\ f.node.operator \in AssignOperators
               /\ left.type \notin {"Identifier", "MemberExpression"} ->
               Throws(Error("Unknown left side of assignment", left.type)) /\ UNCHANGED objects
          [] mode = "ret" /\ f.pc = 1 ->
               LET r == redefineProperty(objects, f.scope, left.name,
                                         Desc(AssignOp(f.node.operator, f.vals[1], ret)))
               IN /\ objects' = r.objects
                  /\ IF r.ok THEN Returns(Undefined)
                     ELSE Throws(TypeError("Cannot redefine property", left.name))
          [] mode = "eval" /\ f.node.operator \in AssignOperators /\ left.type = "MemberExpression" ->
               Visits([f EXCEPT !.pc = 2], left.object, f.scope) /\ UNCHANGED objects
          [] mode = "ret" /\ f.pc = 2 /\ left.property.type = "Identifier" ->
               LET old == MemberGet(objects, ret, left.property.name)
               IN /\ UNCHANGED objects
                  /\ IF old.err # NoError THEN Throws(old.err)
                     ELSE Visits([f EXCEPT !.pc = 5,
                                           !.vals = <<ret, Str(left.property.name), old.value>>],
                                 f.node.right, f.scope)
          [] mode = "ret" /\ f.pc = 2 /\ left.property.type # "Identifier" ->
               Visits([f EXCEPT !.pc = 3, !.vals = <<ret>>], left.property, f.scope)
               /\ UNCHANGED objects
          [] mode = "ret" /\ f.pc = 3 ->
               Visits([f EXCEPT !.pc = 4, !.vals = Append(f.vals, ret)], left.property, f.scope)
               /\ UNCHANGED objects
          [] mode = "ret" /\ f.pc = 4 ->
               LET old == MemberGet(objects, f.vals[1], ToPropertyKey(ret))
               IN /\ UNCHANGED objects
                  /\ IF old.err # NoError THEN Throws(old.err)
                     ELSE Visits([f EXCEPT !.pc = 5, !.vals = Append(f.vals, old.value)],
                                 f.node.right, f.scope)
          [] mode = "ret" /\ f.pc = 5 ->
               LET r == MemberSet(objects, f.vals[1], ToPropertyKey(f.vals[2]),
                                  AssignOp(f.node.operator, f.vals[3], ret))
               IN /\ objects' = r.objects
                  /\ IF r.err = NoError THEN Returns(Undefined) ELSE Throws(r.err)

\* a function value that captures the top scope instead of the defining scope
visitFunctionBodyGlobal(node, scope, params) ==
  IF node.type = "BlockStatement"
  THEN [fn |-> "visitBlockStatement", node |-> node, scope |-> TopScopeId, params |-> params]
  ELSE [fn |-> "visitArrowFunctionBody", node |-> node, scope |-> TopScopeId, params |-> params]

\* visitFunctionBody: the function value visitBlockStatement or
\* visitArrowFunctionBody returns, not yet called
visitFunctionBody(node, scope, params) ==
  IF node.type = "BlockStatement"
  THEN [fn |-> "visitBlockStatement", node |-> node, scope |-> scope, params |-> params]
  ELSE [fn |-> "visitArrowFunctionBody", node |-> node, scope |-> scope, params |-> params]

VisitFunctionDeclaration ==
  /\ At("visitFunctionDeclaration", "eval")
  /\ UNCHANGED <<script, options, stackSize, now, aborted, hostCalls>>
  /\ LET f == Top
         made == Append(closures, visitFunctionBody(f.node.body, f.scope, f.node.params))
         fn == Fn(Len(made))
     IN /\ closures' = made
        /\ IF f.node.id.type = "null" THEN Returns(fn) /\ UNCHANGED objects
           ELSE IF f.node.async
           THEN Throws(Error("Async functions are not supported", "")) /\ UNCHANGED objects
           ELSE LET r == DefineProperty(objects, f.scope, f.node.id.name, DescW(fn, FALSE))
                IN /\ objects' = r.objects
                   /\ IF r.ok THEN Returns(Undefined)
                      ELSE Throws(TypeError("Cannot redefine property", f.node.id.name))

VisitFunctionExpression ==
  /\ At("visitFunctionExpression", "eval")
  /\ UNCHANGED <<script, options, objects, stackSize, now, aborted, hostCalls>>
  /\ closures' = Append(closures, visitFunctionBody(Top.node.body, Top.scope, Top.node.params))
  /\ Returns(Fn(Len(closures) + 1))

VisitArrowFunctionExpression ==
  /\ At("visitArrowFunctionExpression", "eval")
  /\ UNCHANGED <<script, options, objects, stackSize, now, aborted, hostCalls>>
  /\ IF Top.node.async
     THEN Throws(Error("Async functions are not supported", "")) /\ UNCHANGED closures
     ELSE /\ closures' = Append(closures, visitFunctionBody(Top.node.body, Top.scope, Top.node.params))
          /\ Returns(Fn(Len(closures) + 1))

\* visitNode's `throw new ReturnException(visitReturnStatement({ node, scope }))`
VisitReturnStatement ==
  /\ Running /\ Top.fn = "visitReturnStatement" /\ mode \in {"eval", "ret"}
  /\ Quiet
  /\ CASE mode = "eval" ->
            IF Top.node.argument.type = "null"
            THEN \* node.argument is null here, and null is the value returned
                 Throws(ReturnException(Null))
            ELSE Visits([Top EXCEPT !.pc = 1], Top.node.argument, Top.scope)
       [] mode = "ret" -> Throws(ReturnException(ret))

(***************************************************************************)
(* Calling the function visitBlockStatement returned.  Every block runs    *)
(* through it: function bodies, if-branches, while bodies and bare blocks. *)
(***************************************************************************)
\* withStackCheck's finally, the return and the frame's garbage
Leaves(v) ==
  /\ Returns(v)
  /\ stackSize' = stackSize - 1
  /\ objects' = Reclaim(objects, Pop, closures, {v})

LeavesThrowing(e) ==
  /\ Throws(e)
  /\ stackSize' = stackSize - 1
  /\ objects' = Reclaim(objects, Pop, closures, {e.value})

VisitBlockStatement ==
  /\ Running /\ Top.fn = "visitBlockStatement"
  /\ UNCHANGED <<script, options, closures, now, aborted, hostCalls>>
  /\ LET f == Top
         body == f.node.body
     IN CASE mode = "eval" ->
               IF StackExceeded(stackSize + 1)
               THEN \* thrown before the try: the counter stays incremented
                    /\ Throws(StackSizeError)
                    /\ stackSize' = stackSize + 1
                    /\ UNCHANGED objects
               ELSE IF GuardError(now) # NoError
               THEN Throws(GuardError(now)) /\ UNCHANGED <<stackSize, objects>>
               ELSE LET withArgs == Append(objects, ArrayObject(f.vals))
                        withScope == createScope(withArgs, f.scope)
                        newScope == Len(withScope)
                        set == Set(withScope, newScope, "arguments", Obj(Len(withArgs)))
                        bound == BindParams(set.objects, f.params, newScope, f.vals, 1)
                    IN IF ~set.ok
                       THEN /\ Throws(TypeError("Cannot assign to read only property", "arguments"))
                            /\ UNCHANGED <<stackSize, objects>>
                       ELSE IF bound.err # NoError
                       THEN Throws(bound.err) /\ UNCHANGED <<stackSize, objects>>
                       ELSE IF body = <<>>
                       THEN Returns(Undefined) /\ UNCHANGED <<stackSize, objects>>
                       ELSE /\ Visits([f EXCEPT !.pc = 1, !.scope = newScope], body[1], newScope)
                            /\ stackSize' = stackSize + 1
                            /\ objects' = bound.objects
          [] mode = "ret" ->
               IF f.pc < Len(body)
               THEN /\ Visits([f EXCEPT !.pc = f.pc + 1], body[f.pc + 1], f.scope)
                    /\ UNCHANGED <<stackSize, objects>>
               ELSE Leaves(ret)
          [] mode = "throw" ->
               IF IsReturnException(exc) THEN Leaves(exc.value) ELSE LeavesThrowing(exc)

\* calling the function visitArrowFunctionBody returned
VisitArrowFunctionBody ==
  /\ Running /\ Top.fn = "visitArrowFunctionBody"
  /\ UNCHANGED <<script, options, closures, now, aborted, hostCalls>>
  /\ LET f == Top IN
     CASE mode = "eval" ->
            IF StackExceeded(stackSize + 1)
            THEN /\ Throws(StackSizeError)
                 /\ stackSize' = stackSize + 1
                 /\ UNCHANGED objects
            ELSE IF GuardError(now) # NoError
            THEN Throws(GuardError(now)) /\ UNCHANGED <<stackSize, objects>>
            ELSE LET withScope == createScope(objects, f.scope)
                     newScope == Len(withScope)
                     bound == BindParams(withScope, f.params, newScope, f.vals, 1)
                 IN IF bound.err # NoError
                    THEN Throws(bound.err) /\ UNCHANGED <<stackSize, objects>>
                    ELSE /\ Visits([f EXCEPT !.pc = 1, !.scope = newScope], f.node, newScope)
                         /\ stackSize' = stackSize + 1
                         /\ objects' = bound.objects
       [] mode = "ret" -> Leaves(ret)
       [] mode = "throw" -> LeavesThrowing(exc)

(***************************************************************************)
(* Calls.                                                                  *)
(***************************************************************************)
\* fn(...args) for a function value of the script
InvokesValue(f, fn, args) ==
  LET c == closures[fn.n] IN Invokes(f, c.fn, c.node, c.scope, c.params, args)

\* visitCallExpression once every argument is evaluated: the switch on the
\* callee's type
Callee(f, args) ==
  LET callee == f.node.callee
      waiting == [f EXCEPT !.pc = Len(f.node.arguments) + 1, !.vals = args]
  IN CASE callee.type = "Identifier" /\ f.scope = NoScope ->
            Throws(TypeError("Cannot read properties of null", callee.name))
       [] callee.type = "Identifier" /\ f.scope # NoScope ->
            LET fn == Get(objects, f.scope, callee.name) IN
            IF ~IsFunction(fn) THEN Throws(Error("is not a function", callee.name))
            ELSE InvokesValue(waiting, fn, args)
       [] callee.type = "FunctionExpression" ->
            LET c == visitFunctionBody(callee.body, f.scope, callee.params)
            IN Invokes(waiting, c.fn, c.node, c.scope, c.params, args)
       [] callee.type = "ArrowFunctionExpression" ->
            Invokes(waiting, "visitArrowFunctionBody", callee.body, f.scope, callee.params, args)
       [] callee.type = "MemberExpression" ->
            \* the receiver is evaluated after the arguments
            Visits([f EXCEPT !.pc = Len(f.node.arguments) + 2, !.vals = args],
                   callee.object, f.scope)
       [] OTHER -> Throws(Error("Unknown callee type", callee.type))

\* a value used as the scope of a visit: an object is its own scope, null and
\* undefined are no scope, anything else has Object.prototype's properties
ScopeOf(v) ==
  IF v.t = "object" THEN v.n ELSE IF IsNullish(v) THEN NoScope ELSE ObjectPrototypeId

\* visitIdentifier as visitCallExpression calls it for `object.name(...)`:
\* scope is the receiver, memberAccess is set.  Yields [err, value].
MemberIdentifier(objs, object, name, optional) ==
  IF name = "undefined" THEN [err |-> NoError, value |-> Undefined]
  ELSE IF optional /\ IsNullish(object) THEN [err |-> SafeNavigationError, value |-> Undefined]
  ELSE IF IsNullish(object)
  THEN [err |-> Error("Cannot read properties of " \o object.t, name), value |-> Undefined]
  ELSE MemberGet(objs, object, name)

\* visitCallExpression's member case once the callee function is known
MemberCall(f, object, fn) ==
  LET callee == f.node.callee IN
  IF ~IsFunction(fn)
  THEN IF callee.optional /\ IsNullish(fn) THEN Throws(SafeNavigationError)
       ELSE IF callee.property.type = "Identifier"
       THEN Throws(Error("is not a function", callee.property.name))
       ELSE Throws(Error("is not a function", ToPropertyKey(fn)))
  ELSE InvokesValue([f EXCEPT !.pc = Len(f.node.arguments) + 1], fn, f.vals)

VisitCallExpression ==
  /\ Running /\ Top.fn = "visitCallExpression" /\ mode \in {"eval", "ret"}
  /\ Quiet
  /\ LET f == Top
         n == Len(f.node.arguments)
     IN CASE mode = "eval" /\ n > 0 ->
               Visits([f EXCEPT !.pc = 1], f.node.arguments[1], f.scope)
          [] mode = "eval" /\ n = 0 -> Callee(f, <<>>)
          [] mode = "ret" /\ f.pc < n ->
               Visits([f EXCEPT !.pc = f.pc + 1, !.vals = Append(f.vals, ret)],
                      f.node.arguments[f.pc + 1], f.scope)
          [] mode = "ret" /\ f.pc = n -> Callee(f, Append(f.vals, ret))
          [] mode = "ret" /\ f.pc = n + 1 -> Returns(ret)
          [] mode = "ret" /\ f.pc = n + 2 /\ f.node.callee.property.type = "Identifier" ->
               LET r == MemberIdentifier(objects, ret, f.node.callee.property.name,
                                         f.node.callee.optional)
               IN IF r.err # NoError THEN Throws(r.err) ELSE MemberCall(f, ret, r.value)
          [] mode = "ret" /\ f.pc = n + 2 /\ f.node.callee.property.type # "Identifier" ->
               \* visitNode({ node: callee.property, scope: object }): the receiver
               \* is the scope the property node is evaluated in
               Visits([f EXCEPT !.pc = n + 3, !.vals = Append(f.vals, ret)],
                      f.node.callee.property, ScopeOf(ret))
          [] mode = "ret" /\ f.pc = n + 3 ->
               \* what the property node evaluated to is taken for the function
               MemberCall([f EXCEPT !.vals = SubSeq(f.vals, 1, n)], f.vals[n + 1], ret)

(***************************************************************************)
(* Statements.                                                             *)
(***************************************************************************)
\* visitIfStatement's visitConditionNode
visitConditionNode(f, conditionNode) ==
  IF conditionNode.type = "BlockStatement"
  THEN Invokes([f EXCEPT !.pc = 2], "visitBlockStatement", conditionNode, f.scope, <<>>, <<>>)
  ELSE Visits([f EXCEPT !.pc = 2], conditionNode, f.scope)

VisitIfStatement ==
  /\ Running /\ Top.fn = "visitIfStatement" /\ mode \in {"eval", "ret"}
  /\ Quiet
  /\ LET f == Top IN
     CASE mode = "eval" -> Visits([f EXCEPT !.pc = 1], f.node.test, f.scope)
       [] mode = "ret" /\ f.pc = 1 ->
            IF Truthy(ret) THEN visitConditionNode(f, f.node.consequent)
            ELSE IF f.node.alternate.type # "null" THEN visitConditionNode(f, f.node.alternate)
            ELSE Returns(Undefined)
       [] mode = "ret" /\ f.pc = 2 -> Returns(Undefined)

\* visitWhileStatement testing disableWhileStatements only once the condition
\* has been evaluated
VisitWhileStatementLate ==
  /\ Running /\ Top.fn = "visitWhileStatement" /\ mode \in {"eval", "ret"}
  /\ Quiet
  /\ LET f == Top IN
     CASE mode = "eval" -> Visits([f EXCEPT !.pc = 1], f.node.test, f.scope)
       [] mode = "ret" /\ f.pc = 1 ->
            IF disableWhileStatements
            THEN Throws(Error("While statements are not available", ""))
            ELSE IF ~Truthy(ret) THEN Returns(Undefined)
            ELSE IF GuardError(now) # NoError THEN Throws(GuardError(now))
            ELSE Invokes([f EXCEPT !.pc = 2], "visitBlockStatement", f.node.body, f.scope, <<>>, <<>>)
       [] mode = "ret" /\ f.pc = 2 -> Visits([f EXCEPT !.pc = 1], f.node.test, f.scope)

\* visitWhileStatement({ node, scope })
VisitWhileStatement ==
  /\ Running /\ Top.fn = "visitWhileStatement" /\ mode \in {"eval", "ret"}
  /\ Quiet
  /\ LET f == Top IN
     CASE mode = "eval" ->
            IF disableWhileStatements
            THEN Throws(Error("While statements are not available", ""))
            ELSE Visits([f EXCEPT !.pc = 1], f.node.test, f.scope)
       [] mode = "ret" /\ f.pc = 1 ->
            IF ~Truthy(ret) THEN Returns(Undefined)
            ELSE IF GuardError(now) # NoError THEN Throws(GuardError(now))
            ELSE Invokes([f EXCEPT !.pc = 2], "visitBlockStatement", f.node.body, f.scope, <<>>, <<>>)
       [] mode = "ret" /\ f.pc = 2 -> Visits([f EXCEPT !.pc = 1], f.node.test, f.scope)

(***************************************************************************)
(* Objects, member access and optional chains.                             *)
(***************************************************************************)
\* the object an object literal builds from <<value, key, value, key, ...>>
RECURSIVE LiteralProps(_, _)
LiteralProps(own, pairs) ==
  IF pairs = <<>> THEN own
  ELSE LiteralProps(WithProp(own, pairs[2].s, PlainProp(pairs[1])), SubSeq(pairs, 3, Len(pairs)))

VisitObjectExpression ==
  /\ Running /\ Top.fn = "visitObjectExpression" /\ mode \in {"eval", "ret"}
  /\ QuietButObjects
  /\ LET f == Top
         props == f.node.properties
         \* the pairs once the value (and key) of property f.pc are known
         step(g) ==
           IF g.pc < Len(props)
           THEN Visits([g EXCEPT !.pc = g.pc + 1], props[g.pc + 1].value, g.scope)
                /\ UNCHANGED objects
           ELSE /\ objects' = Append(objects, [proto |-> ObjectPrototypeId,
                                               own |-> LiteralProps(NoProps, g.vals)])
                /\ Returns(Obj(Len(objects) + 1))
     IN CASE mode = "eval" -> step(f)
          [] mode = "ret" /\ Len(f.vals) % 2 = 0 /\ props[f.pc].computed ->
               \* the value is evaluated before a computed key
               Visits([f EXCEPT !.vals = Append(f.vals, ret)], props[f.pc].key, f.scope)
               /\ UNCHANGED objects
          [] mode = "ret" /\ Len(f.vals) % 2 = 0 /\ ~props[f.pc].computed ->
               IF props[f.pc].key.type = "Identifier"
               THEN step([f EXCEPT !.vals = f.vals \o <<ret, Str(props[f.pc].key.name)>>])
               ELSE IF props[f.pc].key.type = "Literal" /\ props[f.pc].key.value.t = "string"
               THEN step([f EXCEPT !.vals = f.vals \o <<ret, props[f.pc].key.value>>])
               ELSE Throws(Error("Unknown key type", props[f.pc].key.type)) /\ UNCHANGED objects
          [] mode = "ret" /\ Len(f.vals) % 2 = 1 ->
               step([f EXCEPT !.vals = Append(f.vals, Str(ToPropertyKey(ret)))])

\* visitArrayExpression, for elements that are neither holes nor spread
VisitArrayExpression ==
  /\ Running /\ Top.fn = "visitArrayExpression" /\ mode \in {"eval", "ret"}
  /\ QuietButObjects
  /\ LET f == Top
         elements == f.node.elements
         res == IF mode = "ret" THEN Append(f.vals, ret) ELSE f.vals
     IN IF Len(res) < Len(elements)
        THEN /\ Visits([f EXCEPT !.vals = res], elements[Len(res) + 1], f.scope)
             /\ UNCHANGED objects
        ELSE /\ objects' = Append(objects, ArrayObject(res))
             /\ Returns(Obj(Len(objects) + 1))

\* -x, +x and !x on the values the scripts use
UnaryOp(op, v) ==
  CASE op = "-" /\ v.t = "number" -> Num(0 - v.n)
    [] op = "+" /\ v.t = "number" -> v
    [] op = "!" -> Bool(~Truthy(v))

UnaryOperators == {"-", "+", "!", "delete"}

VisitUnaryExpression ==
  /\ Running /\ Top.fn = "visitUnaryExpression" /\ mode \in {"eval", "ret"}
  /\ Quiet
  /\ LET f == Top IN
     CASE mode = "eval" /\ f.node.operator \notin UnaryOperators ->
            Throws(Error("Unknown unary operator", f.node.operator))
       [] mode = "eval" /\ f.node.operator = "delete" ->
            Invokes([f EXCEPT !.pc = 1], "visitDelete", f.node.argument, f.scope, <<>>, <<>>)
       [] mode = "eval" /\ f.node.operator \in UnaryOperators \ {"delete"} ->
            Visits([f EXCEPT !.pc = 2], f.node.argument, f.scope)
       [] mode = "ret" /\ f.pc = 1 -> Returns(ret)
       [] mode = "ret" /\ f.pc = 2 -> Returns(UnaryOp(f.node.operator, ret))

\* visitDelete: a member is deleted by property.name whenever the property
\* node is an Identifier; a chain that short-circuits yields true
VisitDelete ==
  /\ Running /\ Top.fn = "visitDelete"
  /\ QuietButObjects
  /\ LET f == Top
         node == f.node
     IN CASE mode = "throw" ->
               /\ UNCHANGED objects
               /\ IF node.type = "ChainExpression" /\ IsSafeNavigationError(exc)
                  THEN Returns(Bool(TRUE))
                  ELSE Throws(exc)
          [] mode = "eval" /\ node.type = "ChainExpression" ->
               /\ UNCHANGED objects
               /\ Invokes([f EXCEPT !.pc = 1], "visitDelete", node.expression, f.scope, <<>>, <<>>)
          [] mode = "eval" /\ node.type = "MemberExpression" ->
               Visits([f EXCEPT !.pc = 2], node.object, f.scope) /\ UNCHANGED objects
          [] mode = "eval" /\ node.type \notin {"ChainExpression", "MemberExpression"} ->
               Throws(Error("Unknown delete type", node.type)) /\ UNCHANGED objects
          [] mode = "ret" /\ f.pc = 1 -> Returns(ret) /\ UNCHANGED objects
          [] mode = "ret" /\ f.pc = 2 /\ node.optional /\ IsNullish(ret) ->
               Throws(SafeNavigationError) /\ UNCHANGED objects
          [] mode = "ret" /\ f.pc = 2 /\ ~(node.optional /\ IsNullish(ret))
               /\ node.property.type # "Identifier" ->
               Visits([f EXCEPT !.pc = 3, !.vals = <<ret>>], node.property, f.scope)
               /\ UNCHANGED objects
          [] mode = "ret" /\ (f.pc = 3 \/ (f.pc = 2 /\ ~(node.optional /\ IsNullish(ret))
                                                   /\ node.property.type = "Identifier")) ->
               LET object == IF f.pc = 3 THEN f.vals[1] ELSE ret
                   key == IF f.pc = 3 THEN ToPropertyKey(ret) ELSE node.property.name
                   r == MemberDelete(objects, object, key)
               IN /\ objects' = r.objects
                  /\ IF r.err = NoError THEN Returns(Undefined) ELSE Throws(r.err)

VisitMemberExpression ==
  /\ Running /\ Top.fn = "visitMemberExpression" /\ mode \in {"eval", "ret"}
  /\ Quiet
  /\ LET f == Top IN
     CASE mode = "eval" -> Visits([f EXCEPT !.pc = 1], f.node.object, f.scope)
       [] mode = "ret" /\ f.pc = 1 ->
            IF f.node.optional /\ IsNullish(ret) THEN Throws(SafeNavigationError)
            ELSE IF f.node.computed
            THEN Visits([f EXCEPT !.pc = 2, !.vals = <<ret>>], f.node.property, f.scope)
            ELSE IF f.node.property.type # "Identifier"
            THEN Throws(Error("Unexpected property type", f.node.property.type))
            ELSE LET r == MemberGet(objects, ret, f.node.property.name)
                 IN IF r.err # NoError THEN Throws(r.err) ELSE Returns(r.value)
       [] mode = "ret" /\ f.pc = 2 ->
            LET r == MemberGet(objects, f.vals[1], ToPropertyKey(ret))
            IN IF r.err # NoError THEN Throws(r.err) ELSE Returns(r.value)

VisitChainExpression ==
  /\ Running /\ Top.fn = "visitChainExpression"
  /\ Quiet
  /\ CASE mode = "eval" -> Visits([Top EXCEPT !.pc = 1], Top.node.expression, Top.scope)
       [] mode = "ret" -> Returns(ret)
       [] mode = "throw" ->
            IF IsSafeNavigationError(exc) THEN Returns(Undefined) ELSE Throws(exc)

(***************************************************************************)
(* The runtime: exceptions pass through activations that have no try, and  *)
(* the clock advances.                                                     *)
(***************************************************************************)
Catchers == {"topscript", "visitBlockStatement", "visitArrowFunctionBody",
             "visitChainExpression", "visitDelete", "host"}

Unwind ==
  /\ Running /\ mode = "throw"
  /\ Top.fn \notin Catchers
  /\ Quiet
  /\ Throws(exc)

\* Date.now() moves on.  The clock is only ever read by checkTimeout, so it
\* is followed only when a timeout is configured.
Tick ==
  /\ Running
  /\ timeout # None
  /\ now < MaxClock
  /\ now' = now + 1
  /\ UNCHANGED <<script, options, control, mode, ret, exc, objects, closures,
                 stackSize, aborted, hostCalls>>

(***************************************************************************)
(* The host.                                                               *)
(***************************************************************************)
\* the argument lists the host calls a script function with
\* the script functions the host holds: the one the evaluation just gave it,
\* or, once it has called a function and that call is over (with a value or
\* with an error the host caught), the same function again, which is the only
\* function there is when the evaluation created one
HostHeld ==
  IF mode = "done" /\ IsFunction(ret) /\ ret.n > 0 THEN {ret.n}
  ELSE IF hostCalls > 0 /\ Len(closures) = 1 THEN {1}
  ELSE {}

HostArguments == {<<>>, <<Null>>, <<Num(1)>>}

\* the host calls a function value topscript returned to it
HostCall ==
  /\ mode \in {"done", "error"}
  /\ hostCalls < MaxHostCalls
  /\ hostCalls' = hostCalls + 1
  /\ \E k \in HostHeld, args \in HostArguments :
       LET c == closures[k] IN
       control' = <<Frame("host", NoNode, TopScopeId, <<>>, <<>>),
                    Frame(c.fn, c.node, c.scope, c.params, args)>>
  /\ mode' = "eval"
  /\ ret' = Undefined
  /\ exc' = NoError
  /\ UNCHANGED <<script, options, objects, closures, stackSize, now, aborted>>

\* the function the host called returns or throws to the host
HostReturn ==
  /\ Running /\ Top.fn = "host" /\ mode \in {"ret", "throw"}
  /\ Quiet
  /\ IF mode = "ret" THEN Finish(ret) ELSE Fail(exc)

\* the host sets the abort flag it passed
HostAbort ==
  /\ Running
  /\ options.abortFlag /\ ~aborted
  /\ aborted' = TRUE
  /\ UNCHANGED <<script, options, control, mode, ret, exc, objects, closures,
                 stackSize, now, hostCalls>>

(***************************************************************************)
(* The scripts and options the host passes.  A script is named by          *)
(* [name, n, order]; ScriptBody gives its syntax tree.                     *)
(***************************************************************************)
FnNames == <<"fn1", "fn2", "fn3", "fn4", "fn5", "fn6">>

\* const fn1 = () => fn2(); ... const fn<d> = () => 7; fn1()
ChainArrow(d) ==
  [i \in 1..d |->
     Const(FnNames[i], ArrowFunctionExpression(<<>>,
             IF i < d THEN Call(FnNames[i + 1], <<>>) ELSE Lit(7)))]
  \o <<Stmt(Call("fn1", <<>>))>>

\* function fn1() { return fn2(); } ... function fn<d>() { return 7; } fn1()
ChainFunction(d) ==
  [i \in 1..d |->
     FunctionDeclaration(FnNames[i], <<>>, BlockStatement(<<
             Ret(IF i < d THEN Call(FnNames[i + 1], <<>>) ELSE Lit(7))>>))]
  \o <<Stmt(Call("fn1", <<>>))>>

\* function f() { f(); } f()
Recursion ==
  <<FunctionDeclaration("f", <<>>, BlockStatement(<<Stmt(Call("f", <<>>))>>)),
    Stmt(Call("f", <<>>))>>

True == Literal(Bool(TRUE))
Block(body) == BlockStatement(body)
Member(object, name) == MemberExpression(object, Id(name), FALSE, FALSE)
OptionalMember(object, name) == MemberExpression(object, Id(name), FALSE, TRUE)

\* let t = 0;
\* function f() { <returning statement>; t = 1; return 2; }
\* f()
\* where the returning statement is, by n:
\*   1: return 1;   2: if (true) return 1;   3: if (true) { return 1; }
\*   4: { return 1; }   5: while (true) { return 1; }
\*   6: if (false) {} else { return 1; }
Returning(n) ==
  CASE n = 1 -> Ret(Lit(1))
    [] n = 2 -> IfStatement(True, Ret(Lit(1)), NoNode)
    [] n = 3 -> IfStatement(True, Block(<<Ret(Lit(1))>>), NoNode)
    [] n = 4 -> Block(<<Ret(Lit(1))>>)
    [] n = 5 -> WhileStatement(True, Block(<<Ret(Lit(1))>>))
    [] n = 6 -> IfStatement(Literal(Bool(FALSE)), Block(<<>>), Block(<<Ret(Lit(1))>>))

ReturnForms == 1..6

ReturnScript(n) ==
  <<Let("t", Lit(0)),
    FunctionDeclaration("f", <<>>, Block(<<Returning(n), Assign("t", "=", Lit(1)), Ret(Lit(2))>>)),
    Stmt(Call("f", <<>>))>>

\* const x = 1; <an attempt to change x>; x
\* where the attempt is, by n:
\*   1: x = 2;   2: x += 1;   3: { x = 2; }   4: function g() { x = 5; } g();
\*   5: x++;     6: x = 1;    7: { let x = 3; x = 4; }   8: const g = () => { x -= 1; }; g();
\*   9: (nothing)   10: let x = 2;
ConstAttempt(n) ==
  CASE n = 1 -> <<Assign("x", "=", Lit(2))>>
    [] n = 2 -> <<Assign("x", "+=", Lit(1))>>
    [] n = 3 -> <<Block(<<Assign("x", "=", Lit(2))>>)>>
    [] n = 4 -> <<FunctionDeclaration("g", <<>>, Block(<<Assign("x", "=", Lit(5))>>)),
                  Stmt(Call("g", <<>>))>>
    [] n = 5 -> <<Stmt(UpdateExpression("++", FALSE, Id("x")))>>
    [] n = 6 -> <<Assign("x", "=", Lit(1))>>
    [] n = 7 -> <<Block(<<Let("x", Lit(3)), Assign("x", "=", Lit(4))>>)>>
    [] n = 8 -> <<Const("g", ArrowFunctionExpression(<<>>, Block(<<Assign("x", "-=", Lit(1))>>))),
                  Stmt(Call("g", <<>>))>>
    [] n = 9 -> <<[type |-> "EmptyStatement"]>>
    [] n = 10 -> <<Let("x", Lit(2))>>

ConstForms == 1..10

ConstScript(n) == <<Const("x", Lit(1))>> \o ConstAttempt(n) \o <<Stmt(Id("x"))>>

\* scoping scripts, by n:
\*   1: let x = 1; { let x = 2; x = 3; } x
\*   2: let x = 1; function f() { x = 2; } f(); x
\*   3: let x = 1; function f() { let x = 2; x = 3; } f(); x
\*   4: let x = 1; { let y = 5; { x = x + y; } } y
\*   5: let x = 1; function f(x) { { x = 2; } } f(7); x
\*   6: let x = 1; { let x = 2; { x = 3; } } x
\*   7: y = 1
ScopeScript(n) ==
  CASE n = 1 -> <<Let("x", Lit(1)),
                  Block(<<Let("x", Lit(2)), Assign("x", "=", Lit(3))>>),
                  Stmt(Id("x"))>>
    [] n = 2 -> <<Let("x", Lit(1)),
                  FunctionDeclaration("f", <<>>, Block(<<Assign("x", "=", Lit(2))>>)),
                  Stmt(Call("f", <<>>)),
                  Stmt(Id("x"))>>
    [] n = 3 -> <<Let("x", Lit(1)),
                  FunctionDeclaration("f", <<>>,
                    Block(<<Let("x", Lit(2)), Assign("x", "=", Lit(3))>>)),
                  Stmt(Call("f", <<>>)),
                  Stmt(Id("x"))>>
    [] n = 4 -> <<Let("x", Lit(1)),
                  Block(<<Let("y", Lit(5)),
                          Block(<<Assign("x", "=", BinaryExpression("+", Id("x"), Id("y")))>>)>>),
                  Stmt(Id("y"))>>
    [] n = 5 -> <<Let("x", Lit(1)),
                  FunctionDeclaration("f", <<Id("x")>>, Block(<<Block(<<Assign("x", "=", Lit(2))>>)>>)),
                  Stmt(Call("f", <<Lit(7)>>)),
                  Stmt(Id("x"))>>
    [] n = 6 -> <<Let("x", Lit(1)),
                  Block(<<Let("x", Lit(2)), Block(<<Assign("x", "=", Lit(3))>>)>>),
                  Stmt(Id("x"))>>
    [] n = 7 -> <<Assign("y", "=", Lit(1))>>

ScopeForms == 1..7

\* function createCounter(initial) {
\*   let count = initial;
\*   return function() { count = count + 1; return count; };
\* }
\* const c1 = createCounter(0); const c2 = createCounter(10);
\* then one call c1() or c2() per element of order
CounterNames == <<"c1", "c2">>
CounterInitial == <<0, 10>>

CounterScript(order) ==
  <<FunctionDeclaration("createCounter", <<Id("initial")>>, Block(<<
      Let("count", Id("initial")),
      Ret(FunctionExpression(<<>>, Block(<<
            Assign("count", "=", BinaryExpression("+", Id("count"), Lit(1))),
            Ret(Id("count"))>>)))>>)),
    Const("c1", Call("createCounter", <<Lit(CounterInitial[1])>>)),
    Const("c2", Call("createCounter", <<Lit(CounterInitial[2])>>))>>
  \o [i \in 1..Len(order) |-> Stmt(Call(CounterNames[order[i]], <<>>))]

RECURSIVE Orders(_)
Orders(len) ==
  IF len = 0 THEN {<<>>}
  ELSE {Append(o, c) : o \in Orders(len - 1), c \in {1, 2}}

CounterOrders == UNION {Orders(len) : len \in 1..MaxCalls}

\* scripts that never end by themselves, by n:
\*   1: while (true) {}
\*   2: function f() {} while (true) { f(); }
\*   3: const g = () => 1; while (true) { g(); }
ForeverScript(n) ==
  CASE n = 1 -> <<WhileStatement(True, Block(<<>>))>>
    [] n = 2 -> <<FunctionDeclaration("f", <<>>, Block(<<>>)),
                  WhileStatement(True, Block(<<Stmt(Call("f", <<>>))>>))>>
    [] n = 3 -> <<Const("g", ArrowFunctionExpression(<<>>, Lit(1))),
                  WhileStatement(True, Block(<<Stmt(Call("g", <<>>))>>))>>

ForeverForms == 1..3

\* let x = 0; function t() { x = 1; return false; } while (t()) { x = 2; } x
WhileScript ==
  <<Let("x", Lit(0)),
    FunctionDeclaration("t", <<>>, Block(<<Assign("x", "=", Lit(1)), Ret(Literal(Bool(FALSE)))>>)),
    WhileStatement(Call("t", <<>>), Block(<<Assign("x", "=", Lit(2))>>)),
    Stmt(Id("x"))>>

\* let i = 0; while (i < 2) { i += 1; } i
CountingScript ==
  <<Let("i", Lit(0)),
    WhileStatement(BinaryExpression("<", Id("i"), Lit(2)), Block(<<Assign("i", "+=", Lit(1))>>)),
    Stmt(Id("i"))>>

\* let t = 0; function k() { t = 1; return "a"; }
\* function h() { t = 2; return 5; }
\* const o = <receiver>; const r = <chain>; t
\* where receiver and chain are, by n:
\*   1: null, o?.a        2: null, o?.a?.b       3: null, o?.a.b
\*   4: null, o?.[k()]    5: null, o?.a.b(h())   6: undefined, o?.a[k()]
\*   7: { a: null }, o?.a?.b                     8: { a: null }, o.a?.[k()]
\*   9: { a: { b: 1 } }, o?.a?.b                10: { a: { b: 1 } }, o.a.b
\*  11: { a: { b: 1 } }, o?.[k()]?.b            12: { a: { b: 1 } }, o[k()].b
\*  13: { a: { b: () => 5 } }, o?.a?.b()        14: { a: { b: () => 5 } }, o.a.b()
\*  15: null, o.a                               16: { a: { b: 1 } }, o?.a?.c
ChainReceiver(n) ==
  CASE n \in {1, 2, 3, 4, 5, 15} -> Literal(Null)
    [] n = 6 -> Id("undefined")
    [] n \in {7, 8} -> ObjectExpression(<<Property("a", Literal(Null))>>)
    [] n \in {9, 10, 11, 12, 16} ->
         ObjectExpression(<<Property("a", ObjectExpression(<<Property("b", Lit(1))>>))>>)
    [] n \in {13, 14} ->
         ObjectExpression(<<Property("a", ObjectExpression(<<
             Property("b", ArrowFunctionExpression(<<>>, Lit(5)))>>))>>)

ChainAccess(n) ==
  LET o == Id("o")
      k == Call("k", <<>>)
  IN CASE n = 1 -> ChainExpression(OptionalMember(o, "a"))
       [] n = 2 -> ChainExpression(OptionalMember(OptionalMember(o, "a"), "b"))
       [] n = 3 -> ChainExpression(Member(OptionalMember(o, "a"), "b"))
       [] n = 4 -> ChainExpression(MemberExpression(o, k, TRUE, TRUE))
       [] n = 5 -> ChainExpression(CallExpression(Member(OptionalMember(o, "a"), "b"),
                                                  <<Call("h", <<>>)>>))
       [] n = 6 -> ChainExpression(MemberExpression(OptionalMember(o, "a"), k, TRUE, FALSE))
       [] n = 7 -> ChainExpression(OptionalMember(OptionalMember(o, "a"), "b"))
       [] n = 8 -> ChainExpression(MemberExpression(Member(o, "a"), k, TRUE, TRUE))
       [] n = 9 -> ChainExpression(OptionalMember(OptionalMember(o, "a"), "b"))
       [] n = 10 -> Member(Member(o, "a"), "b")
       [] n = 11 -> ChainExpression(OptionalMember(MemberExpression(o, k, TRUE, TRUE), "b"))
       [] n = 12 -> Member(MemberExpression(o, k, TRUE, FALSE), "b")
       [] n = 13 -> ChainExpression(CallExpression(
                      OptionalMember(OptionalMember(o, "a"), "b"), <<>>))
       [] n = 14 -> CallExpression(Member(Member(o, "a"), "b"), <<>>)
       [] n = 15 -> Member(o, "a")
       [] n = 16 -> ChainExpression(OptionalMember(OptionalMember(o, "a"), "c"))

ChainForms == 1..16

ChainScript(n) ==
  <<Let("t", Lit(0)),
    FunctionDeclaration("k", <<>>, Block(<<Assign("t", "=", Lit(1)), Ret(Literal(Str("a")))>>)),
    FunctionDeclaration("h", <<>>, Block(<<Assign("t", "=", Lit(2)), Ret(Lit(5))>>)),
    Const("o", ChainReceiver(n)),
    Const("r", ChainAccess(n)),
    Stmt(Id("t"))>>

\* scripts whose value is a function the host calls later, by n:
\*   1: function (o) { if (o) { return 1; } return o?.a; }
\*   2: (o) => o?.a.b
\*   3: (o) => { if (o) return 1; return 2; }
\*   4: function () { while (true) { return 1; } }
HostedScript(n) ==
  LET o == Id("o") IN
  CASE n = 1 -> <<Stmt(FunctionExpression(<<o>>, Block(<<
                     IfStatement(o, Block(<<Ret(Lit(1))>>), NoNode),
                     Ret(ChainExpression(OptionalMember(o, "a")))>>)))>>
    [] n = 2 -> <<Stmt(ArrowFunctionExpression(<<o>>,
                     ChainExpression(Member(OptionalMember(o, "a"), "b"))))>>
    [] n = 3 -> <<Stmt(ArrowFunctionExpression(<<o>>, Block(<<
                     IfStatement(o, Ret(Lit(1)), NoNode),
                     Ret(Lit(2))>>)))>>
    [] n = 4 -> <<Stmt(FunctionExpression(<<>>, Block(<<
                     WhileStatement(True, Block(<<Ret(Lit(1))>>))>>)))>>

HostedForms == 1..4


(***************************************************************************)
(* Optional calls.  The script is                                          *)
(*   const obj = {}; const key = 'a'; const arr = [];                      *)
(*   const index = () => 0; const full = { a: {} }; <statement n>          *)
(***************************************************************************)
\*   1: obj.a?.()   2: obj["a"]?.()   3: obj[key]?.()   4: arr[0]?.()
\*   5: arr[index()]?.()   6: obj.a()   7: obj?.a?.()   8: full?.a?.b?.()
OptionalCallScript(n) ==
  LET obj == Id("obj")
      Computed(object, property) == MemberExpression(object, property, TRUE, FALSE)
      OptionalCall(callee) ==
        Stmt(ChainExpression([CallExpression(callee, <<>>) EXCEPT !.optional = TRUE]))
  IN <<Const("obj", ObjectExpression(<<>>)),
       Const("key", Literal(Str("a"))),
       Const("arr", ArrayExpression(<<>>)),
       Const("index", ArrowFunctionExpression(<<>>, Lit(0))),
       Const("full", ObjectExpression(<<Property("a", ObjectExpression(<<>>))>>)),
       CASE n = 1 -> OptionalCall(Member(obj, "a"))
         [] n = 2 -> OptionalCall(Computed(obj, Literal(Str("a"))))
         [] n = 3 -> OptionalCall(Computed(obj, Id("key")))
         [] n = 4 -> OptionalCall(Computed(Id("arr"), Lit(0)))
         [] n = 5 -> OptionalCall(Computed(Id("arr"), Call("index", <<>>)))
         [] n = 6 -> Stmt(CallExpression(Member(obj, "a"), <<>>))
         [] n = 7 -> OptionalCall(OptionalMember(obj, "a"))
         [] n = 8 -> OptionalCall(OptionalMember(OptionalMember(Id("full"), "a"), "b"))>>

\* a call the host makes: the script, and the entry point it is handed to

(***************************************************************************)
(* Return at the top level.  The script is                                 *)
(*   let t = 0; <statement n>; t = 1; 7                                    *)
(***************************************************************************)
\*   1: return 42;   2: if (true) return 42;   3: { return 42; }
\*   4: if (true) { return 42; }   5: 0;
TopLevelReturnScript(n) ==
  <<Let("t", Lit(0)),
    CASE n = 1 -> Ret(Lit(42))
      [] n = 2 -> IfStatement(True, Ret(Lit(42)), NoNode)
      [] n = 3 -> Block(<<Ret(Lit(42))>>)
      [] n = 4 -> IfStatement(True, Block(<<Ret(Lit(42))>>), NoNode)
      [] n = 5 -> Stmt(Lit(0)),
    Assign("t", "=", Lit(1)),
    Stmt(Lit(7))>>


(***************************************************************************)
(* Names and evaluations.  A probe reads one name; the scripts evaluated   *)
(* before a probe write to that name.  Forms 4 run with the context        *)
(* { c: 3 }.                                                               *)
(***************************************************************************)
\*   1: x   2: toString   3: f   4: c   5: undefined   6: let y = 1; y
\*   7: function g(p) { return p; } g(8)
\*   8: function h() { return arguments; } h(8)
ProbeScript(n) ==
  CASE n = 1 -> <<Stmt(Id("x"))>>
    [] n = 2 -> <<Stmt(Id("toString"))>>
    [] n = 3 -> <<Stmt(Id("f"))>>
    [] n = 4 -> <<Stmt(Id("c"))>>
    [] n = 5 -> <<Stmt(Id("undefined"))>>
    [] n = 6 -> <<Let("y", Lit(1)), Stmt(Id("y"))>>
    [] n = 7 -> <<FunctionDeclaration("g", <<Id("p")>>, Block(<<Ret(Id("p"))>>)),
                  Stmt(Call("g", <<Lit(8)>>))>>
    [] n = 8 -> <<FunctionDeclaration("h", <<>>, Block(<<Ret(Member(Id("arguments"), "length"))>>)),
                  Stmt(Call("h", <<Lit(8)>>))>>

\*   1: let x = 1;   2: toString = 5;   3: function f() {}   4: c = 9;
EarlierScript(n) ==
  CASE n = 1 -> <<Let("x", Lit(1))>>
    [] n = 2 -> <<Assign("toString", "=", Lit(5))>>
    [] n = 3 -> <<FunctionDeclaration("f", <<>>, Block(<<>>))>>
    [] n = 4 -> <<Assign("c", "=", Lit(9))>>


(***************************************************************************)
(* The arguments of a call.  The script is                                 *)
(*   let r = 9; function f() { <statements n> } f(1, 2); r                 *)
(***************************************************************************)
\*   1: r = arguments.length;          2: if (true) { r = arguments.length; }
\*   3: { r = arguments.length; }
\*   4: let i = 0; while (i < 1) { r = arguments.length; i += 1; }
\*   5: r = arguments[1];              6: function g() { r = arguments.length; } g();
ArgumentsScript(n) ==
  LET length == Assign("r", "=", Member(Id("arguments"), "length"))
      body ==
        CASE n = 1 -> <<length>>
          [] n = 2 -> <<IfStatement(True, Block(<<length>>), NoNode)>>
          [] n = 3 -> <<Block(<<length>>)>>
          [] n = 4 -> <<Let("i", Lit(0)),
                        WhileStatement(BinaryExpression("<", Id("i"), Lit(1)),
                                       Block(<<length, Assign("i", "+=", Lit(1))>>))>>
          [] n = 5 -> <<Assign("r", "=", MemberExpression(Id("arguments"), Lit(1), TRUE, FALSE))>>
          [] n = 6 -> <<FunctionDeclaration("g", <<>>, Block(<<length>>)),
                        Stmt(Call("g", <<>>))>>
  IN <<Let("r", Lit(9)),
       FunctionDeclaration("f", <<>>, Block(body)),
       Stmt(Call("f", <<Lit(1), Lit(2)>>)),
       Stmt(Id("r"))>>


(***************************************************************************)
(* Update expressions.  The script is                                      *)
(*   let x = 5; const c = 5; const arr = [1]; const obj = { a: 1 };        *)
(*   <statement n>                                                         *)
(***************************************************************************)
\*   1: x++   2: x--   3: ++x   4: --x   5: c++   6: arr[0]++   7: obj.a--
UpdateScript(n) ==
  <<Let("x", Lit(5)),
    Const("c", Lit(5)),
    Const("arr", ArrayExpression(<<Lit(1)>>)),
    Const("obj", ObjectExpression(<<Property("a", Lit(1))>>)),
    Stmt(CASE n = 1 -> UpdateExpression("++", FALSE, Id("x"))
           [] n = 2 -> UpdateExpression("--", FALSE, Id("x"))
           [] n = 3 -> UpdateExpression("++", TRUE, Id("x"))
           [] n = 4 -> UpdateExpression("--", TRUE, Id("x"))
           [] n = 5 -> UpdateExpression("++", FALSE, Id("c"))
           [] n = 6 -> UpdateExpression("++", FALSE,
                                        MemberExpression(Id("arr"), Lit(0), TRUE, FALSE))
           [] n = 7 -> UpdateExpression("--", FALSE, Member(Id("obj"), "a")))>>


(***************************************************************************)
(* Computed keys.  The script is                                           *)
(*   const obj = { a: 1, k: 2 }; const k = 'a';                            *)
(*   const arr = [1, 2, 3]; const i = 1; <statement n>                     *)
(***************************************************************************)
\*   1: obj[k] = 7   2: obj[k] += 1   3: delete obj[k]   4: obj['a'] = 7
\*   5: delete arr[i]   6: obj.a = 7   7: arr[i] = 9   8: delete obj['a']
ComputedKeyScript(n) ==
  LET Keyed(object, property) == MemberExpression(Id(object), property, TRUE, FALSE)
  IN <<Const("obj", ObjectExpression(<<Property("a", Lit(1)), Property("k", Lit(2))>>)),
       Const("k", Literal(Str("a"))),
       Const("arr", ArrayExpression(<<Lit(1), Lit(2), Lit(3)>>)),
       Const("i", Lit(1)),
       Stmt(CASE n = 1 -> AssignmentExpression("=", Keyed("obj", Id("k")), Lit(7))
              [] n = 2 -> AssignmentExpression("+=", Keyed("obj", Id("k")), Lit(1))
              [] n = 3 -> UnaryExpression("delete", Keyed("obj", Id("k")))
              [] n = 4 -> AssignmentExpression("=", Keyed("obj", Literal(Str("a"))), Lit(7))
              [] n = 5 -> UnaryExpression("delete", Keyed("arr", Id("i")))
              [] n = 6 -> AssignmentExpression("=", Member(Id("obj"), "a"), Lit(7))
              [] n = 7 -> AssignmentExpression("=", Keyed("arr", Id("i")), Lit(9))
              [] n = 8 -> UnaryExpression("delete", Keyed("obj", Literal(Str("a")))))>>


(***************************************************************************)
(* Calls through a computed member.  The script is                         *)
(*   const obj = { a: () => 5, k: () => 9, v: 3 }; const k = 'a';          *)
(*   const arr = [() => 4]; const i = 0; const index = () => 0;            *)
(*   <statement n>                                                         *)
(***************************************************************************)
\*   1: obj['a']()   2: obj[k]()   3: arr[0]()   4: arr[i]()
\*   5: arr[index()]()   6: obj.a()   7: obj['v']()
ComputedCallScript(n) ==
  LET Keyed(object, property) == MemberExpression(Id(object), property, TRUE, FALSE)
      Yields(v) == ArrowFunctionExpression(<<>>, Lit(v))
  IN <<Const("obj", ObjectExpression(<<Property("a", Yields(5)), Property("k", Yields(9)),
                                       Property("v", Lit(3))>>)),
       Const("k", Literal(Str("a"))),
       Const("arr", ArrayExpression(<<Yields(4)>>)),
       Const("i", Lit(0)),
       Const("index", Yields(0)),
       Stmt(CallExpression(
              CASE n = 1 -> Keyed("obj", Literal(Str("a")))
                [] n = 2 -> Keyed("obj", Id("k"))
                [] n = 3 -> Keyed("arr", Lit(0))
                [] n = 4 -> Keyed("arr", Id("i"))
                [] n = 5 -> Keyed("arr", Call("index", <<>>))
                [] n = 6 -> Member(Id("obj"), "a")
                [] n = 7 -> Keyed("obj", Literal(Str("v"))),
              <<>>))>>


(***************************************************************************)
(* Async functions, one form per script.                                   *)
(***************************************************************************)
\*   1: async function f() {}            2: const f = async () => 1;
\*   3: const f = async function () {};  4: (async () => 1)()
\*   5: (async function () { return 1; })()
\*   6: const o = { m: async function () {} };
\*   7: const o = { m: async () => 1 };  8: function f() {} f()
AsyncScript(n) ==
  LET Async(node) == [node EXCEPT !.async = TRUE]
      arrow == Async(ArrowFunctionExpression(<<>>, Lit(1)))
      function == Async(FunctionExpression(<<>>, Block(<<Ret(Lit(1))>>)))
  IN CASE n = 1 -> <<Async(FunctionDeclaration("f", <<>>, Block(<<>>)))>>
       [] n = 2 -> <<Const("f", arrow)>>
       [] n = 3 -> <<Const("f", function)>>
       [] n = 4 -> <<Stmt(CallExpression(arrow, <<>>))>>
       [] n = 5 -> <<Stmt(CallExpression(function, <<>>))>>
       [] n = 6 -> <<Const("o", ObjectExpression(<<Property("m", function)>>))>>
       [] n = 7 -> <<Const("o", ObjectExpression(<<Property("m", arrow)>>))>>
       [] n = 8 -> <<FunctionDeclaration("f", <<>>, Block(<<>>)), Stmt(Call("f", <<>>))>>


(***************************************************************************)
(* Assignments to a name nothing declares.  The script is                  *)
(*   let t = 0; function h() { t = 1; return 2; } <statement n>            *)
(***************************************************************************)
\*   1: y = h()   2: y += h()   3: toString = h()
\*   4: function g() { z = h(); } g()
UndeclaredScript(n) ==
  LET h == Call("h", <<>>) IN
  <<Let("t", Lit(0)),
    FunctionDeclaration("h", <<>>, Block(<<Assign("t", "=", Lit(1)), Ret(Lit(2))>>))>>
  \o CASE n = 1 -> <<Assign("y", "=", h)>>
       [] n = 2 -> <<Assign("y", "+=", h)>>
       [] n = 3 -> <<Assign("toString", "=", h)>>
       [] n = 4 -> <<FunctionDeclaration("g", <<>>, Block(<<Assign("z", "=", h)>>)),
                     Stmt(Call("g", <<>>))>>


(***************************************************************************)
(* Blocks and the stack limit, one form per script.                        *)
(***************************************************************************)
\*   1: { 1; }   2: if (true) { 1; }
\*   3: let i = 0; while (i < 1) { i += 1; }
\*   4: function f() { { 1; } return 7; } f()
NestedBlockScript(n) ==
  LET one == Block(<<Stmt(Lit(1))>>) IN
  CASE n = 1 -> <<one>>
    [] n = 2 -> <<IfStatement(True, one, NoNode)>>
    [] n = 3 -> <<Let("i", Lit(0)),
                  WhileStatement(BinaryExpression("<", Id("i"), Lit(1)),
                                 Block(<<Assign("i", "+=", Lit(1))>>))>>
    [] n = 4 -> <<FunctionDeclaration("f", <<>>, Block(<<one, Ret(Lit(7))>>)),
                  Stmt(Call("f", <<>>))>>


(***************************************************************************)
(* The order of a call's parts.  The script is                             *)
(*   let t = ''; const obj = { m: (p, q) => 0 }; const o = null;           *)
(*   function r() { t += 'r'; return obj; }                                *)
(*   function a() { t += 'a'; return 1; }                                  *)
(*   function b() { t += 'b'; return 2; }   <statement n>                  *)
(***************************************************************************)
\*   1: r().m(a(), b())   2: o.m(a())   3: o?.m(a())   4: obj.m(a(), b())
CallOrderScript(n) ==
  LET Logs(name, letter, value) ==
        FunctionDeclaration(name, <<>>, Block(<<Assign("t", "+=", Literal(Str(letter))),
                                                Ret(value)>>))
      a == Call("a", <<>>)
      b == Call("b", <<>>)
  IN <<Let("t", Literal(Str(""))),
       Const("obj", ObjectExpression(<<Property("m",
               ArrowFunctionExpression(<<Id("p"), Id("q")>>, Lit(0)))>>)),
       Const("o", Literal(Null)),
       Logs("r", "r", Id("obj")),
       Logs("a", "a", Lit(1)),
       Logs("b", "b", Lit(2)),
       Stmt(CASE n = 1 -> CallExpression(Member(Call("r", <<>>), "m"), <<a, b>>)
              [] n = 2 -> CallExpression(Member(Id("o"), "m"), <<a>>)
              [] n = 3 -> ChainExpression(CallExpression(OptionalMember(Id("o"), "m"), <<a>>))
              [] n = 4 -> CallExpression(Member(Id("obj"), "m"), <<a, b>>))>>


(***************************************************************************)
(* Keys with side effects.  The script is                                  *)
(*   let c = 0; const obj = { a: 1, b: 5 };                                *)
(*   function k() { c += 1; return 'a'; }                                  *)
(*   function alt() { c += 1; if (c === 1) return 'a'; return 'b'; }       *)
(*   <statement n>                                                         *)
(***************************************************************************)
\*   1: obj[k()] += 1   2: obj[k()] = 7   3: obj[alt()] += 1   4: obj.a += 1
KeyOnceScript(n) ==
  LET Keyed(property) == MemberExpression(Id("obj"), property, TRUE, FALSE)
      count == Assign("c", "+=", Lit(1))
  IN <<Let("c", Lit(0)),
       Const("obj", ObjectExpression(<<Property("a", Lit(1)), Property("b", Lit(5))>>)),
       FunctionDeclaration("k", <<>>, Block(<<count, Ret(Literal(Str("a")))>>)),
       FunctionDeclaration("alt", <<>>, Block(<<
         count,
         IfStatement(BinaryExpression("===", Id("c"), Lit(1)), Ret(Literal(Str("a"))), NoNode),
         Ret(Literal(Str("b")))>>)),
       Stmt(CASE n = 1 -> AssignmentExpression("+=", Keyed(Call("k", <<>>)), Lit(1))
              [] n = 2 -> AssignmentExpression("=", Keyed(Call("k", <<>>)), Lit(7))
              [] n = 3 -> AssignmentExpression("+=", Keyed(Call("alt", <<>>)), Lit(1))
              [] n = 4 -> AssignmentExpression("+=", Member(Id("obj"), "a"), Lit(1)))>>


(***************************************************************************)
(* Assignments to read-only bindings.  The script is                       *)
(*   const x = 1; function f() {} <statement n>                            *)
(***************************************************************************)
\*   1: x = 2   2: x = 1   3: x += 0   4: x += 1   5: f = 1   6: f = f
ReadOnlyScript(n) ==
  <<Const("x", Lit(1)),
    FunctionDeclaration("f", <<>>, Block(<<>>)),
    CASE n = 1 -> Assign("x", "=", Lit(2))
      [] n = 2 -> Assign("x", "=", Lit(1))
      [] n = 3 -> Assign("x", "+=", Lit(0))
      [] n = 4 -> Assign("x", "+=", Lit(1))
      [] n = 5 -> Assign("f", "=", Lit(1))
      [] n = 6 -> Assign("f", "=", Id("f"))>>


(***************************************************************************)
(* Declarations without an initializer.                                    *)
(***************************************************************************)
\*   1: let x; x   2: let x; x = 3; x   3: let x = undefined; x
UninitializedScript(n) ==
  CASE n = 1 -> <<Let("x", NoNode), Stmt(Id("x"))>>
    [] n = 2 -> <<Let("x", NoNode), Assign("x", "=", Lit(3)), Stmt(Id("x"))>>
    [] n = 3 -> <<Let("x", Id("undefined")), Stmt(Id("x"))>>


(***************************************************************************)
(* Assignments to parameters.  The script is                               *)
(*   let r = 0; function f(p, ...rest) { <statements n> r = p; }           *)
(*   const g = (q) => q = 2;  f(1, 2) or, for form 6, g(1);  r             *)
(***************************************************************************)
\*   1: p = 2;   2: p += 1;   3: rest = 5;   4: { p = 2; }
\*   5: arguments = 5; r = arguments; return;   6: (none, g is called)
\*   7: (none)   8: p = 1;
ParameterScript(n) ==
  LET attempt ==
        CASE n = 1 -> <<Assign("p", "=", Lit(2))>>
          [] n = 2 -> <<Assign("p", "+=", Lit(1))>>
          [] n = 3 -> <<Assign("rest", "=", Lit(5))>>
          [] n = 4 -> <<Block(<<Assign("p", "=", Lit(2))>>)>>
          [] n = 5 -> <<Assign("arguments", "=", Lit(5)), Assign("r", "=", Id("arguments")),
                        Ret(NoNode)>>
          [] n = 8 -> <<Assign("p", "=", Lit(1))>>
          [] OTHER -> <<>>
  IN <<Let("r", Lit(0)),
       FunctionDeclaration("f", <<Id("p"), [type |-> "RestElement", argument |-> Id("rest")]>>,
                           Block(attempt \o <<Assign("r", "=", Id("p"))>>)),
       Const("g", ArrowFunctionExpression(<<Id("q")>>,
                                          AssignmentExpression("=", Id("q"), Lit(2)))),
       Stmt(IF n = 6 THEN Call("g", <<Lit(1)>>) ELSE Call("f", <<Lit(1), Lit(2)>>)),
       Stmt(Id("r"))>>

\* function f(o) { if (o) { return f(o) } return 7 } f
\* the host gets f, calls it, catches what it throws and calls it again
ReentryScript ==
  <<FunctionDeclaration("f", <<Id("o")>>, Block(<<
      IfStatement(Id("o"), Block(<<Ret(Call("f", <<Id("o")>>))>>), NoNode),
      Ret(Lit(7))>>)),
    Stmt(Id("f"))>>

ScriptId(name, n, order) ==
  [name |-> name, n |-> n, order |-> order, api |-> "topscript", run |-> 1]

ScriptIds ==
  {ScriptId("chainArrow", d, <<>>) : d \in 1..MaxDepth}
  \cup {ScriptId("chainFunction", d, <<>>) : d \in 1..MaxDepth}
  \cup {ScriptId("recursion", 0, <<>>)}
  \cup {ScriptId("return", n, <<>>) : n \in ReturnForms}
  \cup {ScriptId("const", n, <<>>) : n \in ConstForms}
  \cup {ScriptId("scope", n, <<>>) : n \in ScopeForms}
  \cup {ScriptId("counter", 0, o) : o \in CounterOrders}
  \cup {ScriptId("forever", n, <<>>) : n \in ForeverForms}
  \cup {ScriptId("while", 0, <<>>), ScriptId("counting", 0, <<>>)}
  \cup {ScriptId("chain", n, <<>>) : n \in ChainForms}
  \cup {ScriptId("hosted", n, <<>>) : n \in HostedForms}
  \cup {ScriptId("optionalCall", n, <<>>) : n \in 1..8}
  \cup {[ScriptId("topLevelReturn", n, <<>>) EXCEPT !.api = a] :
          n \in 1..5, a \in {"topscript", "validate"}}
  \cup {ScriptId("probe", n, <<>>) : n \in 1..8}
  \cup {ScriptId("earlier", n, <<>>) : n \in 1..4}
  \cup {ScriptId("arguments", n, <<>>) : n \in 1..6}
  \cup {ScriptId("update", n, <<>>) : n \in 1..7}
  \cup {ScriptId("computedKey", n, <<>>) : n \in 1..8}
  \cup {ScriptId("computedCall", n, <<>>) : n \in 1..7}
  \cup {ScriptId("async", n, <<>>) : n \in 1..8}
  \cup {ScriptId("undeclared", n, <<>>) : n \in 1..4}
  \cup {ScriptId("nestedBlock", n, <<>>) : n \in 1..4}
  \cup {ScriptId("callOrder", n, <<>>) : n \in 1..4}
  \cup {ScriptId("keyOnce", n, <<>>) : n \in 1..4}
  \cup {ScriptId("readOnly", n, <<>>) : n \in 1..6}
  \cup {ScriptId("uninitialized", n, <<>>) : n \in 1..3}
  \cup {ScriptId("parameter", n, <<>>) : n \in 1..8}
  \cup {ScriptId("reentry", 0, <<>>)}

ScriptBody(id) ==
  CASE id.name = "chainArrow" -> ChainArrow(id.n)
    [] id.name = "chainFunction" -> ChainFunction(id.n)
    [] id.name = "recursion" -> Recursion
    [] id.name = "return" -> ReturnScript(id.n)
    [] id.name = "const" -> ConstScript(id.n)
    [] id.name = "scope" -> ScopeScript(id.n)
    [] id.name = "counter" -> CounterScript(id.order)
    [] id.name = "forever" -> ForeverScript(id.n)
    [] id.name = "while" -> WhileScript
    [] id.name = "counting" -> CountingScript
    [] id.name = "chain" -> ChainScript(id.n)
    [] id.name = "hosted" -> HostedScript(id.n)
    [] id.name = "optionalCall" -> OptionalCallScript(id.n)
    [] id.name = "topLevelReturn" -> TopLevelReturnScript(id.n)
    [] id.name = "probe" -> ProbeScript(id.n)
    [] id.name = "earlier" -> EarlierScript(id.n)
    [] id.name = "arguments" -> ArgumentsScript(id.n)
    [] id.name = "update" -> UpdateScript(id.n)
    [] id.name = "computedKey" -> ComputedKeyScript(id.n)
    [] id.name = "computedCall" -> ComputedCallScript(id.n)
    [] id.name = "async" -> AsyncScript(id.n)
    [] id.name = "undeclared" -> UndeclaredScript(id.n)
    [] id.name = "nestedBlock" -> NestedBlockScript(id.n)
    [] id.name = "callOrder" -> CallOrderScript(id.n)
    [] id.name = "keyOnce" -> KeyOnceScript(id.n)
    [] id.name = "readOnly" -> ReadOnlyScript(id.n)
    [] id.name = "uninitialized" -> UninitializedScript(id.n)
    [] id.name = "parameter" -> ParameterScript(id.n)
    [] id.name = "reentry" -> ReentryScript

\* the context object the host passes with the script
ContextOf(id) ==
  IF id.name \in {"probe", "earlier"} /\ id.n = 4
  THEN [k \in {"c"} |-> PlainProp(Num(3))]
  ELSE NoProps

DefaultOptions ==
  [timeout |-> None, disableWhileStatements |-> FALSE, maxStackSize |-> None,
   allowReturnOutsideFunction |-> FALSE, abortFlag |-> FALSE]

StackOptions == {[DefaultOptions EXCEPT !.maxStackSize = n] : n \in 0..MaxStackOption}

\* timeout 1 leaves the clock room to pass it whatever MaxClock is
TimeOptions ==
  {[DefaultOptions EXCEPT !.timeout = t, !.abortFlag = a] : t \in {None, 0, 1}, a \in BOOLEAN}

WhileOptions == {[DefaultOptions EXCEPT !.disableWhileStatements = d] : d \in BOOLEAN}

ReturnOptions == {[DefaultOptions EXCEPT !.allowReturnOutsideFunction = a] : a \in BOOLEAN}

OptionsFor(id) ==
  CASE id.name \in {"chainArrow", "chainFunction"} -> {DefaultOptions} \cup StackOptions
    [] id.name \in {"recursion", "reentry"} -> StackOptions \ {DefaultOptions}
    [] id.name = "nestedBlock" -> {DefaultOptions} \cup StackOptions
    [] id.name = "forever" -> TimeOptions
    [] id.name \in {"while", "counting"} -> WhileOptions \cup TimeOptions
    [] id.name = "return" /\ id.n = 5 -> TimeOptions
    [] id.name = "hosted" -> TimeOptions
    [] id.name = "topLevelReturn" -> ReturnOptions
    [] OTHER -> {DefaultOptions}

(***************************************************************************)
(* The specification.                                                      *)
(***************************************************************************)
\* the call of topscript or validate: startTime is taken, stackSize is 0 and
\* the top scope is there for the statements once the source is parsed
Init ==
  \E id \in ScriptIds : \E o \in OptionsFor(id) :
    /\ script = id
    /\ options = o
    /\ control = <<Frame(id.api, Program(ScriptBody(id)), TopScopeId, <<>>, <<>>)>>
    /\ mode = "eval"
    /\ ret = Undefined
    /\ exc = NoError
    /\ objects = <<ObjectPrototype,
                   [proto |-> ObjectPrototypeId, own |-> ContextOf(id)],
                   [proto |-> ContextId, own |-> NoProps]>>
    /\ closures = <<>>
    /\ stackSize = 0
    /\ now = 0
    /\ aborted = FALSE
    /\ hostCalls = 0

\* the host calls topscript a second time, with a fresh context: whatever the
\* first evaluation did to Object.prototype is still there, its context, its
\* scopes and its functions are not
TopscriptAgain ==
  /\ mode \in {"done", "error"}
  /\ script.name = "earlier" /\ script.run = 1
  /\ LET id == [ScriptId("probe", script.n, <<>>) EXCEPT !.run = 2] IN
     /\ script' = id
     /\ options' \in OptionsFor(id)
     /\ control' = <<Frame(id.api, Program(ScriptBody(id)), TopScopeId, <<>>, <<>>)>>
     /\ objects' = <<objects[ObjectPrototypeId],
                     [proto |-> ObjectPrototypeId, own |-> ContextOf(id)],
                     [proto |-> ContextId, own |-> NoProps]>>
  /\ mode' = "eval"
  /\ ret' = Undefined
  /\ exc' = NoError
  /\ closures' = <<>>
  /\ stackSize' = 0
  /\ now' = 0
  /\ aborted' = FALSE
  /\ UNCHANGED hostCalls

Next ==
  \/ Topscript
  \/ Validate
  \/ VisitExpressionStatement
  \/ VisitLiteral
  \/ VisitIdentifier
  \/ VisitEmptyStatement
  \/ VisitNodeDefault
  \/ VisitVariableDeclaration
  \/ VisitBinaryExpression
  \/ VisitAssignmentExpression
  \/ VisitFunctionDeclaration
  \/ VisitFunctionExpression
  \/ VisitArrowFunctionExpression
  \/ VisitReturnStatement
  \/ VisitBlockStatement
  \/ VisitArrowFunctionBody
  \/ VisitCallExpression
  \/ VisitIfStatement
  \/ VisitWhileStatement
  \/ VisitObjectExpression
  \/ VisitArrayExpression
  \/ VisitUnaryExpression
  \/ VisitDelete
  \/ VisitMemberExpression
  \/ VisitChainExpression
  \/ HostCall
  \/ TopscriptAgain
  \/ HostReturn
  \/ HostAbort
  \/ Unwind
  \/ Tick

Spec == Init /\ [][Next]_vars

\* topscript is synchronous: once called, the evaluation keeps taking steps
\* until it returns or throws
Evaluate ==
  \/ Topscript
  \/ Validate
  \/ VisitExpressionStatement
  \/ VisitLiteral
  \/ VisitIdentifier
  \/ VisitEmptyStatement
  \/ VisitNodeDefault
  \/ VisitVariableDeclaration
  \/ VisitBinaryExpression
  \/ VisitAssignmentExpression
  \/ VisitFunctionDeclaration
  \/ VisitFunctionExpression
  \/ VisitArrowFunctionExpression
  \/ VisitReturnStatement
  \/ VisitBlockStatement
  \/ VisitArrowFunctionBody
  \/ VisitCallExpression
  \/ VisitIfStatement
  \/ VisitWhileStatement
  \/ VisitObjectExpression
  \/ VisitArrayExpression
  \/ VisitUnaryExpression
  \/ VisitDelete
  \/ VisitMemberExpression
  \/ VisitChainExpression
  \/ HostReturn
  \/ Unwind

\* the evaluation keeps running and the clock keeps advancing
LiveSpec == Init /\ [][Next]_vars /\ WF_vars(Evaluate) /\ WF_vars(Tick)

(***************************************************************************)
(* Properties.                                                             *)
(***************************************************************************)
Ended == mode \in {"done", "error"}

\* a step of the evaluation, as opposed to a step of the clock or the host
Stepped == control' # control \/ mode' # mode

\* the value of a variable of the top scope
Declared(name) == name \in DOMAIN objects[TopScopeId].own
TopValue(name) == objects[TopScopeId].own[name].value

\* C1: with maxStackSize = N, a chain of script functions calling each other
\* d deep raises 'Maximum stack size exceeded: N' if and only if d > N; a chain
\* of depth d <= N returns its value; with maxStackSize unset the error is
\* never raised.
StackLimit ==
  /\ (Ended /\ script.name \in {"chainArrow", "chainFunction"}) =>
       IF maxStackSize # None /\ script.n > maxStackSize
       THEN mode = "error"
            /\ exc = Error("Maximum stack size exceeded: ", IndexKey(maxStackSize))
       ELSE mode = "done" /\ ret = Num(7)
  /\ maxStackSize = None => exc.msg # "Maximum stack size exceeded: "

StackLimitWitness ==
  /\ mode = "error" /\ exc.msg = "Maximum stack size exceeded: "
  /\ script.name = "chainFunction" /\ maxStackSize # None /\ script.n = maxStackSize + 1

\* C2: a return statement anywhere inside a function body, also inside an
\* if-branch block, a bare block or a while body nested in it, ends the
\* innermost enclosing function call at once with the returned value: no later
\* statement of the body runs (t stays 0) and the call yields the value (1).
ReturnEndsCall ==
  script.name = "return" =>
    /\ Declared("t") => TopValue("t") = Num(0)
    /\ mode = "done" => ret = Num(1)

\* C3: once a const is declared, no later operation in any frame changes the
\* value its name resolves to: a non-writable binding keeps its value as long
\* as its frame exists, and x of `const x = 1` is 1 whatever the script tries.
ConstKeepsValue ==
  /\ [][\A i \in 1..Len(objects) : \A k \in DOMAIN objects[i].own :
          \* the frames of an evaluation exist until the host starts the next one
          (~objects[i].own[k].writable /\ i <= Len(objects') /\ script' = script) =>
             /\ k \in DOMAIN objects'[i].own
             /\ objects'[i].own[k] = objects[i].own[k]]_vars
  /\ []((script.name = "const" /\ Declared("x")) => TopValue("x") = Num(1))

ConstKeepsValueWitness ==
  /\ script.name = "const" /\ script.n = 4
  /\ mode = "error" /\ exc = TypeError("Cannot redefine property", "x")
  /\ TopValue("x") = Num(1)

\* the nearest object of the chain from o on that owns name, 0 when none does
RECURSIVE Owner(_, _, _)
Owner(objs, o, name) ==
  IF o = 0 THEN 0
  ELSE IF name \in DOMAIN objs[o].own THEN o
  ELSE Owner(objs, objs[o].proto, name)

\* objects' differs from objects at most in the binding of name in object o
OnlyBindingChanges(o, name) ==
  /\ Len(objects') = Len(objects)
  /\ \A i \in 1..Len(objects) :
       /\ objects'[i].proto = objects[i].proto
       /\ DOMAIN objects'[i].own = DOMAIN objects[i].own
       /\ \A k \in DOMAIN objects[i].own :
            (i # o \/ k # name) => objects'[i].own[k] = objects[i].own[k]

\* what the scoping scripts end with
ScopeResult(n) ==
  CASE n = 1 -> mode = "done" /\ ret = Num(1)
    [] n = 2 -> mode = "done" /\ ret = Num(2)
    [] n = 3 -> mode = "done" /\ ret = Num(1)
    [] n = 4 -> mode = "error" /\ exc = Error("Unknown variable", "y") /\ TopValue("x") = Num(6)
    [] n = 5 -> TopValue("x") = Num(1)
    [] n = 6 -> mode = "done" /\ ret = Num(1)
    [] n = 7 -> mode = "error" /\ exc = Error("is unknown", "y")

\* C4: an assignment inside a block or function scope changes only the binding
\* of the nearest frame that owns the name (the scope's own binding when it
\* declared the name, leaving outer bindings of the same name alone); a
\* declaration adds to the current scope only; and when a scope ends nothing
\* of it stays behind in the enclosing frames.
ScopedWrites ==
  /\ [][/\ (Running /\ Top.fn = "visitAssignmentExpression" /\ objects' # objects
              /\ Top.node.left.type = "Identifier") =>
             /\ Owner(objects, Top.scope, Top.node.left.name) # 0
             /\ OnlyBindingChanges(Owner(objects, Top.scope, Top.node.left.name),
                                   Top.node.left.name)
        /\ (Running /\ Top.fn = "visitVariableDeclaration" /\ objects' # objects) =>
             /\ Len(objects') = Len(objects)
             /\ \A i \in 1..Len(objects) : i # Top.scope => objects'[i] = objects[i]
             /\ \A k \in DOMAIN objects[Top.scope].own :
                  /\ k \in DOMAIN objects'[Top.scope].own
                  /\ objects'[Top.scope].own[k] = objects[Top.scope].own[k]
        /\ (Running /\ Top.fn \in {"visitBlockStatement", "visitArrowFunctionBody"}
              /\ control' = Pop) =>
             /\ Len(objects') <= Len(objects)
             /\ \A i \in 1..Len(objects') : objects'[i] = objects[i]
       ]_vars
  /\ []((Ended /\ script.name = "scope") => ScopeResult(script.n))

ScopedWritesWitness ==
  /\ script.name = "scope" /\ script.n = 6
  /\ Running /\ Declared("x") /\ TopValue("x") = Num(1)
  /\ \E i \in 1..Len(objects) :
       /\ "x" \in DOMAIN objects[i].own /\ objects[i].own["x"].value = Num(3)
       /\ \E j \in 1..Len(objects) : objects[j].proto = i /\ "x" \notin DOMAIN objects[j].own

\* how many calls of counter c there are in order
Count(order, c) == Cardinality({i \in 1..Len(order) : order[i] = c})

\* C5: closures returned by two invocations of the same function keep separate
\* state: for every interleaving of calls of createCounter(0) and
\* createCounter(10), a call yields its own counter's initial value plus the
\* number of calls made of that counter so far (1, 11, 2, 12 when alternating).
SeparateCounters ==
  (Ended /\ script.name = "counter") =>
    LET last == script.order[Len(script.order)] IN
    mode = "done" /\ ret = Num(CounterInitial[last] + Count(script.order, last))

SeparateCountersWitness ==
  mode = "done" /\ script.name = "counter" /\ script.order = <<1, 2, 1, 2>> /\ ret = Num(12)

\* the scripts that never end by themselves
NeverEnding ==
  \/ script.name = "forever"
  \/ script.name = "return" /\ script.n = 5
  \/ script.name = "hosted" /\ script.n = 4 /\ hostCalls > 0

\* C6: with a positive timeout and the clock advancing, an evaluation that
\* would otherwise run forever in a while loop or entering function bodies
\* eventually ends with the error 'Execution timed out' thrown to the host.
TimeoutEnds ==
  (Running /\ NeverEnding /\ timeout # None /\ timeout > 0 /\ ~options.abortFlag)
    ~> (mode = "error" /\ exc = Error("Execution timed out", ""))

TimeoutEndsWitness ==
  /\ mode = "error" /\ exc = Error("Execution timed out", "")
  /\ script.name = "forever" /\ script.n = 2 /\ ~options.abortFlag

\* a guard check is about to be made: a body is entered within the stack
\* limit, or a loop iteration starts
GuardCheck ==
  /\ Running
  /\ \/ /\ mode = "eval"
        /\ Top.fn \in {"visitBlockStatement", "visitArrowFunctionBody"}
        /\ ~StackExceeded(stackSize + 1)
     \/ mode = "ret" /\ Top.fn = "visitWhileStatement" /\ Top.pc = 1 /\ Truthy(ret)

WhileDisabled ==
  /\ [][(Running /\ disableWhileStatements /\ Top.fn = "visitWhileStatement" /\ Stepped) =>
          /\ mode = "eval" /\ mode' = "throw"
          /\ exc' = Error("While statements are not available", "")
          /\ control' = Pop
          /\ objects' = objects]_vars
  /\ []((disableWhileStatements /\ script.name = "while" /\ Declared("x")) =>
          TopValue("x") = Num(0))

WhileDisabledWitness ==
  /\ mode = "error" /\ exc = Error("While statements are not available", "")
  /\ script.name = "while" /\ TopValue("x") = Num(0)

\* C9: neither carrier reaches the host, from topscript or from a script
\* function the host calls later: an evaluation never ends with a
\* ReturnException or a SafeNavigationError, and a SafeNavigationError in
\* flight always has a chain expression below it that catches it.
CarriersStayInside ==
  /\ mode = "error" => exc.type \notin {"ReturnException", "SafeNavigationError"}
  /\ (mode = "throw" /\ exc.type = "SafeNavigationError") =>
       \E i \in 1..Len(control) : control[i].fn = "visitChainExpression"
  /\ (mode = "throw" /\ exc.type = "ReturnException") =>
       \E i \in 1..Len(control) : control[i].fn \in {"visitBlockStatement", "topscript"}

CarriersStayInsideWitness ==
  /\ hostCalls = 1 /\ script.name = "hosted" /\ script.n = 1
  /\ mode = "throw" /\ exc.type = "SafeNavigationError"

\* C10: when an optional member access of a chain has a null or undefined
\* receiver, the chain yields undefined without raising and nothing to its
\* right is evaluated (no key expression, no call: t stays 0); when no receiver
\* is null or undefined the chain yields what the non-optional access yields.
ChainShortCircuits ==
  (Ended /\ script.name = "chain") =>
    CASE script.n \in 1..8 ->
           mode = "done" /\ TopValue("r") = Undefined /\ TopValue("t") = Num(0)
      [] script.n \in {9, 10} -> mode = "done" /\ TopValue("r") = Num(1)
      [] script.n \in {11, 12} ->
           mode = "done" /\ TopValue("r") = Num(1) /\ TopValue("t") = Num(1)
      [] script.n \in {13, 14} -> mode = "done" /\ TopValue("r") = Num(5)
      [] script.n = 16 -> mode = "done" /\ TopValue("r") = Undefined
      [] OTHER -> TRUE

\* C11: an optional call whose callee is undefined makes the chain yield
\* undefined, whatever form the callee has: obj.a?.(), obj["a"]?.(),
\* obj[key]?.(), arr[0]?.() and arr[index()]?.() all end with undefined as
\* the result, while the plain call obj.a() raises 'a is not a function'.
OptionalCallYieldsUndefined ==
  (Ended /\ script.name = "optionalCall") =>
    IF script.n = 6
    THEN mode = "error" /\ exc = Error("is not a function", "a")
    ELSE mode = "done" /\ ret = Undefined

\* C12: with allowReturnOutsideFunction a return at the top level, directly,
\* as a bare if-branch, inside a top-level block or inside an if-block, ends
\* the evaluation with the returned value and no later top-level statement
\* is evaluated; without a return the result is the last statement's value.
TopLevelReturnEnds ==
  (Ended /\ script.name = "topLevelReturn" /\ script.api = "topscript"
     /\ allowReturnOutsideFunction) =>
    /\ mode = "done"
    /\ IF script.n \in 1..4
       THEN ret = Num(42) /\ TopValue("t") = Num(0)
       ELSE ret = Num(7) /\ TopValue("t") = Num(1)

\* C13: two evaluations run back to back with distinct fresh contexts are
\* independent: a probe evaluated after an earlier script ends exactly as the
\* same probe evaluated alone, because nothing outside the earlier
\* evaluation's own frames and context survives it.
EvaluationsIndependent ==
  (Ended /\ script.name = "probe" /\ script.n \in 1..4) =>
    CASE script.n \in {1, 3} ->
           mode = "error" /\ exc = Error("Unknown variable", IF script.n = 1 THEN "x" ELSE "f")
      [] script.n = 2 -> mode = "done" /\ ret = Native("toString")
      [] script.n = 4 -> mode = "done" /\ ret = Num(3)

\* C14: reading an identifier other than `undefined` that no frame declares
\* and that is no key of the context raises 'Unknown variable <name>'; own
\* declarations, parameters, `arguments` and context keys resolve.
UnknownVariableRaises ==
  (Ended /\ script.name = "probe" /\ script.run = 1) =>
    CASE script.n \in {1, 2, 3} ->
           /\ mode = "error"
           /\ exc = Error("Unknown variable", ScriptBody(script)[1].expression.name)
      [] script.n = 4 -> mode = "done" /\ ret = Num(3)
      [] script.n = 5 -> mode = "done" /\ ret = Undefined
      [] script.n = 6 -> mode = "done" /\ ret = Num(1)
      [] script.n = 7 -> mode = "done" /\ ret = Num(8)
      [] script.n = 8 -> mode = "done" /\ ret = Num(1)

\* C15: `arguments`, read anywhere inside a function body, is the array of
\* the current call's actual arguments: directly in the body, inside an
\* if-block, a bare block or a while body of f called as f(1, 2) its length
\* is 2 and its element 1 is 2, and inside g called as g() from f its length
\* is 0, never that of the caller.
ArgumentsOfTheCall ==
  (Ended /\ script.name = "arguments") =>
    /\ mode = "done"
    /\ ret = IF script.n = 6 THEN Num(0) ELSE Num(2)

\* C16: x++, x--, ++x, --x, arr[i]++ and obj.a-- write the old value plus or
\* minus 1 to their target; the postfix forms yield the old value and the
\* prefix forms the new one; on a const the update raises
\* 'Cannot redefine property: <name>'.
UpdateWrites ==
  (Ended /\ script.name = "update") =>
    CASE script.n = 1 -> mode = "done" /\ ret = Num(5) /\ TopValue("x") = Num(6)
      [] script.n = 2 -> mode = "done" /\ ret = Num(5) /\ TopValue("x") = Num(4)
      [] script.n = 3 -> mode = "done" /\ ret = Num(6) /\ TopValue("x") = Num(6)
      [] script.n = 4 -> mode = "done" /\ ret = Num(4) /\ TopValue("x") = Num(4)
      [] script.n = 5 -> mode = "error" /\ exc = TypeError("Cannot redefine property", "c")
      [] script.n = 6 ->
           /\ mode = "done" /\ ret = Num(1)
           /\ Get(objects, TopValue("arr").n, "0") = Num(2)
      [] script.n = 7 ->
           /\ mode = "done" /\ ret = Num(1)
           /\ Get(objects, TopValue("obj").n, "a") = Num(0)

\* the own properties of the object a top-level variable holds, with their values
OwnValues(name) ==
  LET own == objects[TopValue(name).n].own IN [k \in DOMAIN own |-> own[k].value]

\* C17: obj[k] = v, obj[k] op= v and delete obj[k] use the property named by
\* the value of k in the current scope, also when k is a bare identifier:
\* with k = 'a' and i = 1 they write or delete obj.a and arr[1], and no other
\* property of obj or arr changes.
ComputedKeyNamesProperty ==
  (Ended /\ script.name = "computedKey") =>
    /\ mode = "done"
    /\ OwnValues("obj") =
         CASE script.n \in {1, 4, 6} -> ("a" :> Num(7)) @@ ("k" :> Num(2))
           [] script.n = 2 -> ("a" :> Num(2)) @@ ("k" :> Num(2))
           [] script.n \in {3, 8} -> ("k" :> Num(2))
           [] OTHER -> ("a" :> Num(1)) @@ ("k" :> Num(2))
    /\ OwnValues("arr") =
         CASE script.n = 5 -> ("0" :> Num(1)) @@ ("2" :> Num(3)) @@ ("length" :> Num(3))
           [] script.n = 7 ->
                ("0" :> Num(1)) @@ ("1" :> Num(9)) @@ ("2" :> Num(3)) @@ ("length" :> Num(3))
           [] OTHER ->
                ("0" :> Num(1)) @@ ("1" :> Num(2)) @@ ("2" :> Num(3)) @@ ("length" :> Num(3))

\* C18: obj[k](args) evaluates k in the current lexical scope and calls the
\* function stored at obj[value of k]: with obj = { a: () => 5, k: () => 9 },
\* k = 'a' and arr = [() => 4], the calls obj['a'](), obj[k]() and obj.a()
\* yield 5 and arr[0](), arr[i](), arr[index()]() yield 4; '... is not a
\* function' is raised only when the stored value is not callable.
ComputedCallInvokes ==
  (Ended /\ script.name = "computedCall") =>
    CASE script.n \in {1, 2, 6} -> mode = "done" /\ ret = Num(5)
      [] script.n \in {3, 4, 5} -> mode = "done" /\ ret = Num(4)
      [] script.n = 7 -> mode = "error" /\ exc.msg = "is not a function"

\* C19: every function form carrying the async modifier (declaration,
\* function expression, arrow function, immediately invoked or stored as an
\* object method) raises 'Async functions are not supported' when it is
\* evaluated, so no async function is ever created or called; a function
\* without the modifier is called as usual.
AsyncRaises ==
  (Ended /\ script.name = "async") =>
    IF script.n = 8
    THEN mode = "done" /\ ret = Undefined
    ELSE mode = "error" /\ exc = Error("Async functions are not supported", "")

\* C20: validate accepts the option allowReturnOutsideFunction as topscript
\* does: a script with a return at the top level is accepted when the option
\* is true and rejected with the parser's syntax error when it is absent; a
\* script without such a return is accepted either way.
ValidateTakesOption ==
  (Ended /\ script.name = "topLevelReturn") =>
    /\ mode = "error" <=> (script.n \in 1..4 /\ ~allowReturnOutsideFunction)
    /\ mode = "error" => exc = parse(Program(ScriptBody(script)), FALSE)

\* the activations that went through withStackCheck and have not left yet
Entered ==
  Cardinality({i \in 1..Len(control) :
                 /\ control[i].fn \in {"visitBlockStatement", "visitArrowFunctionBody"}
                 /\ control[i].pc >= 1})

\* C21: the call-depth counter is decremented on every exit of an
\* invocation, by normal completion, by return or by any error, the
\* 'Maximum stack size exceeded' error raised at entry included: the counter
\* always equals the number of activations currently running and is 0 when
\* the evaluation has ended.
CounterBalanced ==
  /\ stackSize = Entered
  /\ Ended => stackSize = 0

\* C22: a simple or compound assignment to an identifier that no frame of
\* the scope chain declares and that is no key of the context raises
\* '<name> is unknown'; the right-hand side is not evaluated (t stays 0) and
\* no binding is created or changed anywhere.
UndeclaredAssignmentRaises ==
  (Ended /\ script.name = "undeclared") =>
    /\ mode = "error"
    /\ exc = Error("is unknown", CASE script.n \in {1, 2} -> "y"
                                   [] script.n = 3 -> "toString"
                                   [] script.n = 4 -> "z")
    /\ TopValue("t") = Num(0)
    /\ objects[ObjectPrototypeId] = ObjectPrototype
    /\ objects[ContextId].own = NoProps
    /\ DOMAIN objects[TopScopeId].own = IF script.n = 4 THEN {"t", "h", "g"} ELSE {"t", "h"}

\* C23: each guard check, at the entry of a function body and at each
\* iteration of a while loop before its body, raises 'Execution timed out'
\* if and only if the time elapsed since the start is strictly greater than
\* the budget, for every numeric budget, 0 included; with no budget the check
\* never raises, and the step that raises starts no body.
TimeoutIffElapsed ==
  [][(GuardCheck /\ Stepped) =>
       /\ (mode' = "throw" /\ exc' = Error("Execution timed out", ""))
            <=> (timeout # None /\ now > timeout)
       /\ (timeout # None /\ now > timeout) => control' = Pop]_vars

\* C24: only the entry to and the exit from a function body change the
\* call-depth counter and test the stack limit; a bare block, an if-branch
\* block and a while body do not.  A program that calls no function never
\* raises 'Maximum stack size exceeded' whatever maxStackSize is, and a block
\* nested in a function body does not use up a call: f of form 4 runs with
\* every limit of 1 or more.
BlocksNotCounted ==
  (Ended /\ script.name = "nestedBlock") =>
    IF script.n = 4 /\ maxStackSize # None /\ maxStackSize < 1
    THEN mode = "error" /\ exc = StackSizeError
    ELSE mode = "done"

\* C25: the parts of a member call recv.m(a1, ..., an) are evaluated in
\* source order: the receiver before every argument, the arguments from left
\* to right, all of them before the callee is invoked; when the receiver
\* raises or short-circuits, no argument has been evaluated.  The log t of
\* the evaluations is 'rab' for r().m(a(), b()), 'ab' for obj.m(a(), b()) and
\* empty for o.m(a()) and o?.m(a()) with o = null.
CallPartsInOrder ==
  (Ended /\ script.name = "callOrder") =>
    CASE script.n = 1 -> mode = "done" /\ TopValue("t") = Str("rab")
      [] script.n = 2 -> mode = "error" /\ TopValue("t") = Str("")
      [] script.n = 3 -> mode = "done" /\ ret = Undefined /\ TopValue("t") = Str("")
      [] script.n = 4 -> mode = "done" /\ TopValue("t") = Str("ab")

\* C26: in obj[expr] op= rhs the object and the key expression are each
\* evaluated exactly once and the read and the write use the same slot: the
\* counter c that the key function increments is 1 after the assignment and
\* only obj.a is rewritten, from its own old value.
KeyEvaluatedOnce ==
  (Ended /\ script.name = "keyOnce") =>
    /\ mode = "done"
    /\ TopValue("c") = IF script.n = 4 THEN Num(0) ELSE Num(1)
    /\ OwnValues("obj") =
         ("a" :> (IF script.n = 2 THEN Num(7) ELSE Num(2))) @@ ("b" :> Num(5))

\* C27: every simple or compound assignment whose target resolves to a const
\* binding, or to the binding a function declaration made, fails with
\* 'Cannot redefine property: <name>', whatever the value assigned, a value
\* equal to the current one included.
ReadOnlyAssignmentFails ==
  (Ended /\ script.name = "readOnly") =>
    /\ mode = "error"
    /\ exc = TypeError("Cannot redefine property", IF script.n <= 4 THEN "x" ELSE "f")

\* C28: `let x;` binds x to undefined, not to null, and the binding is
\* writable: x reads as undefined until it is assigned, and as the assigned
\* value afterwards.
UninitializedIsUndefined ==
  (Ended /\ script.name = "uninitialized") =>
    /\ mode = "done"
    /\ ret = IF script.n = 2 THEN Num(3) ELSE Undefined
    /\ objects[TopScopeId].own["x"].writable

\* C29: the parameter bindings of a function are immutable: inside the body
\* an assignment, simple or compound, to a plain or rest parameter with a
\* value other than the bound argument raises 'Cannot redefine property:
\* <name>', and the parameter keeps the argument's value for the whole
\* invocation; the `arguments` binding installed with them is writable.
ParametersImmutable ==
  /\ script.name = "parameter" =>
       \A i \in 1..Len(objects) :
         /\ "p" \in DOMAIN objects[i].own =>
              objects[i].own["p"] = Prop(Num(1), FALSE, FALSE)
         /\ "q" \in DOMAIN objects[i].own =>
              objects[i].own["q"] = Prop(Num(1), FALSE, FALSE)
         /\ ("rest" \in DOMAIN objects[i].own /\ "arguments" \in DOMAIN objects[i].own) =>
              /\ ~objects[i].own["rest"].writable
              /\ objects[i].own["rest"].value.t = "object"
              /\ objects[i].own["arguments"].writable
  /\ (Ended /\ script.name = "parameter") =>
       CASE script.n \in {1, 2, 4} ->
              mode = "error" /\ exc = TypeError("Cannot redefine property", "p")
         [] script.n = 3 -> mode = "error" /\ exc = TypeError("Cannot redefine property", "rest")
         [] script.n = 6 -> mode = "error" /\ exc = TypeError("Cannot redefine property", "q")
         [] script.n = 5 -> mode = "done" /\ ret = Num(5)
         [] script.n \in {7, 8} -> mode = "done" /\ ret = Num(1)

ParametersImmutableWitness ==
  /\ script.name = "parameter" /\ script.n = 2
  /\ mode = "error" /\ exc = TypeError("Cannot redefine property", "p")
  /\ TopValue("r") = Num(0)

====
